---- MODULE Spec2Model ----
(***************************************************************************)
(* Position/ordering and reconciliation engine of the feed planner:        *)
(*   - the usePosts hook (stable ids, explicit position column) and the    *)
(*     posts table it writes to, one store round trip per step;            *)
(*   - the array-index-is-identity grid of App (handleSwapPosts).          *)
(***************************************************************************)
EXTENDS Integers, Sequences, FiniteSets, TLC

(* ---------------------------------------------------------------- bounds *)
MaxOps == 2        \* hook calls started in one behaviour of Spec and SpecEngine
MaxSwaps == 3      \* swapPosts calls started in one behaviour of SpecSwap
MaxReorders == 3   \* reorderPosts calls started in one behaviour of SpecReorder
MaxInserts == 3    \* insert-button calls started in one behaviour of SpecInsert
MaxDrops == 2      \* requests the network drops in one behaviour
MaxPosts == 4      \* post ids ever handed out in one behaviour
GridSize == 3      \* cells of the array-index grid
MaxEdits == 2      \* edits of the grid in one behaviour with the auto-save on
MaxSaves == 2      \* save cycles started before a manual save in SpecSave
MaxFails == 1      \* requests of a save cycle the network drops in SpecSave
MaxRows == 2       \* persisted posts in one answer of the server
MaxRowId == 10     \* greatest id of a persisted post
MaxComments == 2   \* comments ever written to the post
MaxStale == 1      \* hook calls started before the page moves to another feed
MaxDupes == 1      \* events the channel delivers a second time

(* ------------------------------------------------------ program constants *)
Offset == 10000
TempPosition == 999999
Delay == 2         \* setTimeout(..., 2000) of the auto-save, in seconds
SavedDelay == 3    \* setTimeout(..., 3000) that takes the "saved" badge away
MinGrid == 9       \* Math.max(maxId, 9): the least number of cells of the grid

NULL == "null"

(* Date.prototype.toISOString: a Date becomes its ISO text *)
ToISOString(d) == IF d = "d1" THEN "t1" ELSE "t2"

(* ------------------------------------------------------------------ state *)
VARIABLES
    store,      \* posts table of the feed: id -> [position, caption, scheduled_time]
    posts,      \* useState<Post[]> of the hook
    call,       \* the hook call in progress (or the last one finished)
    prev,       \* the call before it, when this call repeats it (history)
    nextId,     \* next id the table hands out
    ops,        \* calls that may still be started
    drops,      \* requests the network may still drop
    cells,      \* App: useState<Post[]> of the array-index grid
    lastSwap,   \* App: the last handleSwapPosts with the grid before it (history)
    accessToken,        \* App: useState<string | null>
    syncing,            \* App: useState(false)
    clock,              \* seconds since the page was loaded
    timer,              \* App: the pending timeout of autoSaveTimeoutRef
    idleTimers,         \* App: pending timeouts that reset autoSaveStatus
    previousPostsRef,   \* App: useRef<Post[]>
    autoSaveStatus,     \* App: useState<'idle' | 'saving' | 'saved'>
    saves,              \* App: the performSave runs started so far
    kv,                 \* server: the posts stored for the user, by id
    burst,              \* the current burst of edits (history)
    appNextId,          \* App: useState(10), the id handleAddCell gives out
    viewingSharedFeed,  \* App: useState<{ownerId, feedNumber, ownerEmail} | null>
    load,               \* App: the loadPosts / handleViewSharedFeed run (or the last one)
    comments,           \* useComments: useState<Comment[]>
    commentTable,       \* the comments of the post in the database, by created_at
    channel,            \* the realtime channel of useComments and its events in flight
    fetchComments,      \* useComments: the fetchComments run of the effect
    feedId,             \* usePosts: the feedId the hook is rendered with
    fetchPosts,         \* usePosts: the fetchPosts runs of the effect still in flight
    editor,             \* FeedEditorPage: isSharedFeed, swapMode, selectedForSwap, loadFeedName
    sharedKv,           \* server: the posts stored for the owner of the feed shared with the user
    overlap             \* usePosts: a swapPosts call started while another call is in flight

hookVars == <<store, posts, call, prev, nextId, ops, drops>>
saveVars == <<accessToken, syncing, clock, timer, idleTimers, previousPostsRef,
              autoSaveStatus, saves, kv, burst>>
gridVars == <<cells, lastSwap, saveVars>>
commentVars == <<comments, commentTable, channel, fetchComments>>
feedVars == <<feedId, fetchPosts>>
editorVars == <<editor, sharedKv, overlap>>
extraVars == <<commentVars, feedVars, editorVars>>
pageVars == <<appNextId, viewingSharedFeed, load, extraVars>>
vars == <<store, posts, call, prev, nextId, ops, drops, cells, lastSwap, saveVars, pageVars>>

(* ------------------------------------------------------- list operations *)
(* Array.prototype.sort((a, b) => a.position - b.position): stable *)
RECURSIVE InsertByPosition(_, _)
InsertByPosition(s, p) ==
    IF s = <<>> THEN <<p>>
    ELSE IF s[Len(s)].position <= p.position THEN Append(s, p)
    ELSE Append(InsertByPosition(SubSeq(s, 1, Len(s) - 1), p), s[Len(s)])

RECURSIVE SortByPosition(_)
SortByPosition(s) ==
    IF Len(s) <= 1 THEN s
    ELSE InsertByPosition(SortByPosition(SubSeq(s, 1, Len(s) - 1)), s[Len(s)])

RECURSIVE Filter(_, _)
Filter(s, id) ==
    IF s = <<>> THEN <<>>
    ELSE IF s[1].id # id THEN <<s[1]>> \o Filter(Tail(s), id)
    ELSE Filter(Tail(s), id)

(* posts.find((p) => p.id === id): index of the first match, 0 when none *)
FindIndex(s, id) ==
    IF \E i \in 1..Len(s) : s[i].id = id
    THEN CHOOSE i \in 1..Len(s) : s[i].id = id /\ \A j \in 1..(i - 1) : s[j].id # id
    ELSE 0

(* ------------------------------------------------- the posts table (store) *)
Row(position, caption, scheduled_time) ==
    [position |-> position, caption |-> caption, scheduled_time |-> scheduled_time]

(* a row as the client receives it (.select().single()) *)
PostOf(st, id) ==
    [id |-> id, position |-> st[id].position, caption |-> st[id].caption,
     scheduled_time |-> st[id].scheduled_time]

(* UNIQUE(feed_id, position): some other row of the feed holds pos *)
Taken(st, pos, except) == \E j \in DOMAIN st : j # except /\ st[j].position = pos

(* One request against the table, atomic per row.  w is                    *)
(* [op, id, hasPos, position, hasCap, caption, hasSched, sched, single];   *)
(* the answer is the table afterwards, a status and the id of the row.     *)
StoreApply(st, w, newId) ==
    CASE w.op = "insert" ->
           IF Taken(st, w.position, 0)
           THEN [store |-> st, status |-> "conflict", id |-> 0]
           ELSE [store |-> [j \in DOMAIN st \cup {newId} |->
                               IF j = newId THEN Row(w.position, w.caption, w.sched)
                               ELSE st[j]],
                 status |-> "ok", id |-> newId]
      [] w.op = "update" ->
           IF w.id \notin DOMAIN st
           THEN [store |-> st, status |-> IF w.single THEN "norows" ELSE "ok", id |-> 0]
           ELSE IF w.hasPos /\ Taken(st, w.position, w.id)
           THEN [store |-> st, status |-> "conflict", id |-> 0]
           ELSE [store |-> [st EXCEPT ![w.id] =
                               Row(IF w.hasPos THEN w.position ELSE @.position,
                                   IF w.hasCap THEN w.caption ELSE @.caption,
                                   IF w.hasSched THEN w.sched ELSE @.scheduled_time)],
                 status |-> "ok", id |-> w.id]
      [] OTHER ->
           [store |-> [j \in DOMAIN st \ {w.id} |-> st[j]], status |-> "ok", id |-> 0]

(* --------------------------------------------------- usePosts: the requests *)
NoArgs == [hasPos |-> FALSE, position |-> 0, hasCap |-> FALSE, caption |-> NULL,
           hasSched |-> FALSE, sched |-> NULL]

PositionWrite(id, position) ==
    [op |-> "update", id |-> id, hasPos |-> TRUE, position |-> position,
     hasCap |-> FALSE, caption |-> NULL, hasSched |-> FALSE, sched |-> NULL,
     single |-> FALSE]

(* createPost: insert({feed_id, position, caption || null, scheduledTime?.toISOString() || null}) *)
CreateWrite(c) ==
    [op |-> "insert", id |-> 0, hasPos |-> TRUE, position |-> c.args.position,
     hasCap |-> TRUE,
     caption |-> IF c.args.hasCap /\ c.args.caption # "" THEN c.args.caption ELSE NULL,
     hasSched |-> TRUE,
     sched |-> IF c.args.hasSched /\ c.args.sched # NULL
               THEN ToISOString(c.args.sched) ELSE NULL,
     single |-> TRUE]

(* updatePost: update({...updates, scheduled_time: updates.scheduled_time ? iso : null, updated_at}) *)
UpdateWrite(c) ==
    [op |-> "update", id |-> c.id1, hasPos |-> c.args.hasPos, position |-> c.args.position,
     hasCap |-> c.args.hasCap, caption |-> c.args.caption,
     hasSched |-> TRUE,
     sched |-> IF c.args.hasSched /\ c.args.sched # NULL
               THEN ToISOString(c.args.sched) ELSE NULL,
     single |-> TRUE]

(* deletePost: delete().eq('id', id) *)
DeleteWrite(c) ==
    [op |-> "delete", id |-> c.id1, hasPos |-> FALSE, position |-> 0,
     hasCap |-> FALSE, caption |-> NULL, hasSched |-> FALSE, sched |-> NULL,
     single |-> FALSE]

ReorderWriteIndex(c, k) ==
    LET n == Len(c.list)
    IN IF k <= n
       THEN PositionWrite(c.list[k].id, (k - 1) + Offset)
       ELSE PositionWrite(c.list[k - n].id, k - n - 1)

(* reorderPosts: write k of the 2N, first pass i + offset, second pass list[i].position *)
ReorderWrite(c, k) ==
    LET n == Len(c.list)
    IN IF k <= n
       THEN PositionWrite(c.list[k].id, (k - 1) + Offset)
       ELSE PositionWrite(c.list[k - n].id, c.list[k - n].position)

(* swapPosts: post1 -> temp, post2 -> pos1, post1 -> pos2 *)
SwapWrite(c, k) ==
    CASE k = 1 -> PositionWrite(c.id1, TempPosition)
      [] k = 2 -> PositionWrite(c.id2, c.pos1)
      [] OTHER -> PositionWrite(c.id1, c.pos2)

NumWrites(c) ==
    CASE c.kind = "reorder" -> 2 * Len(c.list)
      [] c.kind = "swap" -> 3
      [] OTHER -> 1

WriteOf(c, k) ==
    CASE c.kind = "create" -> CreateWrite(c)
      [] c.kind = "update" -> UpdateWrite(c)
      [] c.kind = "delete" -> DeleteWrite(c)
      [] c.kind = "reorder" -> ReorderWrite(c, k)
      [] OTHER -> SwapWrite(c, k)

(* ------------------------------------------- usePosts: the local list update *)
RECURSIVE MapReplace(_, _, _)
MapReplace(s, id, data) ==
    IF s = <<>> THEN <<>>
    ELSE <<IF s[1].id = id THEN data ELSE s[1]>> \o MapReplace(Tail(s), id, data)

(* swapPosts: prev.map(p => p.id === postId1 ? {...p, position: pos2} : ...) *)
RECURSIVE MapSwap(_, _)
MapSwap(s, c) ==
    IF s = <<>> THEN <<>>
    ELSE <<IF s[1].id = c.id1 THEN [s[1] EXCEPT !.position = c.pos2]
           ELSE IF s[1].id = c.id2 THEN [s[1] EXCEPT !.position = c.pos1]
           ELSE s[1]>> \o MapSwap(Tail(s), c)

ReorderAppendPosts(c, cur) == cur \o c.list
SwapBothToPos2(c, cur) ==
    SortByPosition([i \in 1..Len(cur) |->
        IF cur[i].id \in {c.id1, c.id2} THEN [cur[i] EXCEPT !.position = c.pos2]
        ELSE cur[i]])
SwapKeepPosts(c, cur) == cur
SwapDropCaption(c, cur) ==
    SortByPosition([i \in 1..Len(cur) |->
        IF cur[i].id = c.id1 THEN [cur[i] EXCEPT !.position = c.pos2, !.caption = NULL]
        ELSE IF cur[i].id = c.id2 THEN [cur[i] EXCEPT !.position = c.pos1]
        ELSE cur[i]])

CreateAppendPosts(c, cur, data) == Append(cur, data)
CreateSetPosts(c, cur, data) == SortByPosition(Append(cur, data))
UpdateSetPosts(c, cur, data) == SortByPosition(MapReplace(cur, c.id1, data))
DeleteRenumberPosts(c, cur) ==
    [i \in 1..Len(Filter(cur, c.id1)) |-> [Filter(cur, c.id1)[i] EXCEPT !.position = i - 1]]
DeleteSetPosts(c, cur) == Filter(cur, c.id1)
ReorderSetPosts(c, cur) == c.list
SwapSetPosts(c, cur) == SortByPosition(MapSwap(cur, c))

(* the setPosts each operation runs once all its writes have succeeded *)
SetPosts(c, cur, st, rowId) ==
    CASE c.kind = "create" -> CreateSetPosts(c, cur, PostOf(st, rowId))
      [] c.kind = "update" -> UpdateSetPosts(c, cur, PostOf(st, rowId))
      [] c.kind = "delete" -> DeleteSetPosts(c, cur)
      [] c.kind = "reorder" -> ReorderSetPosts(c, cur)
      [] OTHER -> SwapSetPosts(c, cur)

(* ------------------------------------------------ usePosts: control flow *)
NoCall ==
    [kind |-> "none", pc |-> "idle", step |-> 1, id1 |-> 0, id2 |-> 0,
     pos1 |-> 0, pos2 |-> 0, list |-> <<>>, args |-> NoArgs,
     inflight |-> {}, completed |-> <<>>, issued |-> 0,
     result |-> "none", errKind |-> "none", errStep |-> 0,
     preStore |-> <<>>, prePosts |-> <<>>, allOk |-> TRUE, via |-> "hook"]

(* a call entered now: nothing issued yet; the state it starts from is kept *)
NewCall(kind) ==
    [NoCall EXCEPT !.kind = kind, !.pc = "ready",
                   !.preStore = store, !.prePosts = posts,
                   !.allOk = call.allOk /\ call.result \in {"none", "ok"}]

(* handleCreateEmptyPost: await reorderPosts(reordered) has resolved and      *)
(* await createPost(0) is the next statement of the handler                   *)
Pending(c) ==
    /\ c.via = "handleCreateEmptyPost" /\ c.kind = "reorder"
    /\ c.pc = "done" /\ c.result = "ok"

AtRest == call.pc \in {"idle", "done"} /\ ~Pending(call)

(* c is the same operation with the same arguments as b *)
Repeats(c, b) ==
    /\ c.kind = b.kind /\ c.via = b.via
    /\ c.id1 = b.id1 /\ c.id2 = b.id2
    /\ c.list = b.list /\ c.args = b.args

Begin(c) ==
    /\ AtRest
    /\ ops > 0
    /\ ops' = ops - 1
    /\ prev' = IF Repeats(c, call) THEN call ELSE NoCall
    /\ call' = c
    /\ UNCHANGED <<store, posts, nextId, drops, gridVars, pageVars>>

NoAwait(c) == [c EXCEPT !.step = @ + 1]

(* await supabase...: the function is suspended until the request settles *)
Await(c) == [c EXCEPT !.pc = "waiting"]

(* the request of step call.step leaves for the store *)
IssueWrite ==
    /\ call.pc = "ready"
    /\ call.step <= NumWrites(call)
    /\ call' = Await([call EXCEPT !.inflight = @ \cup {call.step}, !.issued = @ + 1])
    /\ UNCHANGED <<store, posts, prev, nextId, ops, drops, gridVars, pageVars>>

SwallowError(c, k, status) ==
    [c EXCEPT !.pc = IF k = NumWrites(c) THEN "done" ELSE "ready",
              !.step = k + 1, !.errKind = status, !.errStep = k,
              !.result = IF k = NumWrites(c) THEN "rejected" ELSE @,
              !.inflight = @ \ {k}, !.completed = Append(@, k)]

(* if (error) throw error; catch (err) { console.error(...); throw err; } *)
OnWriteError(c, k, status) ==
    [c EXCEPT !.pc = "done", !.result = "rejected", !.errKind = status, !.errStep = k,
              !.inflight = @ \ {k}, !.completed = Append(@, k)]

(* the request succeeded: go on to the next one, or finish *)
OnWriteOk(c, k) ==
    IF k = NumWrites(c)
    THEN [c EXCEPT !.pc = "done", !.result = "ok",
                   !.inflight = @ \ {k}, !.completed = Append(@, k)]
    ELSE [c EXCEPT !.pc = "ready", !.step = k + 1,
                   !.inflight = @ \ {k}, !.completed = Append(@, k)]

CompleteWriteEager ==
    \E k \in call.inflight, net \in {FALSE} \cup {drops > 0} :
        LET w == WriteOf(call, k)
            r == IF net THEN [store |-> store, status |-> "network", id |-> 0]
                 ELSE StoreApply(store, w, nextId)
            c == IF r.status = "ok" THEN OnWriteOk(call, k)
                 ELSE OnWriteError(call, k, r.status)
        IN /\ store' = r.store
           /\ nextId' = IF r.status = "ok" /\ w.op = "insert" THEN nextId + 1 ELSE nextId
           /\ call' = c
           /\ posts' = IF r.status = "ok"
                       THEN SetPosts(call, posts, r.store, r.id)
                       ELSE posts
           /\ drops' = IF net THEN drops - 1 ELSE drops
           /\ UNCHANGED <<prev, ops, gridVars, pageVars>>

(* a request in flight settles: the network drops it, or the store answers *)
CompleteWrite ==
    \E k \in call.inflight, net \in {FALSE} \cup {drops > 0} :
        LET w == WriteOf(call, k)
            r == IF net THEN [store |-> store, status |-> "network", id |-> 0]
                 ELSE StoreApply(store, w, nextId)
            c == IF r.status = "ok" THEN OnWriteOk(call, k)
                 ELSE OnWriteError(call, k, r.status)
        IN /\ store' = r.store
           /\ nextId' = IF r.status = "ok" /\ w.op = "insert" THEN nextId + 1 ELSE nextId
           /\ call' = c
           /\ posts' = IF c.pc = "done" /\ c.result = "ok"
                       THEN SetPosts(call, posts, r.store, r.id)
                       ELSE posts
           /\ drops' = IF net THEN drops - 1 ELSE drops
           /\ UNCHANGED <<prev, ops, gridVars, pageVars>>

(* ------------------------------------------------------- usePosts: entries *)
Positions(s) == {s[i].position : i \in 1..Len(s)}
Min(S) == CHOOSE x \in S : \A y \in S : x <= y
Max(S) == CHOOSE x \in S : \A y \in S : x >= y

(* handleCreatePostAtTop / handleCreatePostAtBottom / handleCreateEmptyPost *)
TopPosition(s) == (IF Len(s) > 0 THEN Min(Positions(s)) ELSE 0) - 1
BottomPosition(s) == (IF Len(s) > 0 THEN Max(Positions(s)) ELSE -1) + 1
CreatePositions(s) == {0, TopPosition(s), BottomPosition(s)}

CreateArgs(s) ==
    {[NoArgs EXCEPT !.hasPos = TRUE, !.position = p, !.hasCap = hc, !.caption = "cA"] :
        p \in CreatePositions(s), hc \in BOOLEAN}

createPost(a) ==
    /\ nextId <= MaxPosts
    /\ Begin([NewCall("create") EXCEPT !.args = a])

(* the edit modal saves {caption, scheduled_time}; a caller may also move a post *)
UpdateArgs(s) ==
    {[NoArgs EXCEPT !.hasCap = TRUE, !.caption = "cB"],
     [NoArgs EXCEPT !.hasCap = TRUE, !.caption = "cB", !.hasSched = TRUE, !.sched = "d1"],
     [NoArgs EXCEPT !.hasPos = TRUE, !.position = BottomPosition(s)],
     [NoArgs EXCEPT !.hasPos = TRUE, !.position = 0]}

updatePost(id, a) == Begin([NewCall("update") EXCEPT !.id1 = id, !.args = a])

deletePost(id) == Begin([NewCall("delete") EXCEPT !.id1 = id])

(* handleCreateEmptyPost: posts.map((post, index) => ({...post, position: index + 1})) *)
ShiftList(s) == [i \in 1..Len(s) |-> [s[i] EXCEPT !.position = i]]

(* handleSwapPosts of the editor: exchange two entries, then position = index *)
SwapList(s, dragId, dropId) ==
    LET d == FindIndex(s, dragId)
        e == FindIndex(s, dropId)
        r == [i \in 1..Len(s) |-> IF i = d THEN s[e] ELSE IF i = e THEN s[d] ELSE s[i]]
    IN [i \in 1..Len(s) |-> [r[i] EXCEPT !.position = i - 1]]

ReorderLists(s) ==
    IF s = <<>> THEN {}
    ELSE {s, ShiftList(s)} \cup
         {SwapList(s, s[d].id, s[e].id) : d \in 1..Len(s), e \in 1..Len(s)}

(* a caller that still holds the list of its last reorderPosts may pass it again *)
RetryLists == IF call.kind = "reorder" THEN {call.list} ELSE {}

reorderPosts(list) == Begin([NewCall("reorder") EXCEPT !.list = list])

swapPosts(postId1, postId2) ==
    LET i1 == FindIndex(posts, postId1)
        i2 == FindIndex(posts, postId2)
    IN IF i1 = 0 \/ i2 = 0
       THEN Begin([NewCall("swap") EXCEPT !.id1 = postId1, !.id2 = postId2,
                       !.pc = "done", !.result = "rejected", !.errKind = "notfound"])
       ELSE Begin([NewCall("swap") EXCEPT !.id1 = postId1, !.id2 = postId2,
                       !.pos1 = posts[i1].position, !.pos2 = posts[i2].position])

(* the ids a caller can name: those of the list, and one that is not in it *)
KnownIds == {posts[i].id : i \in 1..Len(posts)} \cup {nextId}

(* --------------------------------------------- FeedEditorPage: the handlers *)
Via(c, handler) == [c EXCEPT !.via = handler]

(* createPost(position): no caption, no scheduled time *)
CreateAt(position) == [NoArgs EXCEPT !.hasPos = TRUE, !.position = position]

(* drag-and-drop page: shift every post down by one, then create at position 0 *)
handleCreateEmptyPost ==
    /\ nextId <= MaxPosts
    /\ IF Len(posts) > 0
       THEN Begin(Via([NewCall("reorder") EXCEPT !.list = ShiftList(posts)],
                      "handleCreateEmptyPost"))
       ELSE Begin(Via([NewCall("create") EXCEPT !.args = CreateAt(0)],
                      "handleCreateEmptyPost"))

(* handleCreateEmptyPost goes on: await createPost(0) *)
ResumeCreateEmptyPost ==
    /\ Pending(call)
    /\ call' = Via([NewCall("create") EXCEPT !.args = CreateAt(0)], "handleCreateEmptyPost")
    /\ prev' = call
    /\ UNCHANGED <<store, posts, nextId, ops, drops, gridVars, pageVars>>

(* drag-and-drop page: handleSwapPosts(dragId, dropId) *)
handleSwapPostsEditor(dragId, dropId) ==
    IF FindIndex(posts, dragId) = 0 \/ FindIndex(posts, dropId) = 0
    THEN Begin(Via([NewCall("none") EXCEPT !.id1 = dragId, !.id2 = dropId, !.pc = "done"],
                   "handleSwapPosts"))
    ELSE Begin(Via([NewCall("reorder") EXCEPT !.id1 = dragId, !.id2 = dropId,
                                             !.list = SwapList(posts, dragId, dropId)],
                   "handleSwapPosts"))

(* handleDeletePost(id), the confirmation dialog answered with yes *)
handleDeletePost(id) ==
    Begin(Via([NewCall("delete") EXCEPT !.id1 = id], "handleDeletePost"))

(* swap-mode page: handleCreatePostAtTop / handleCreatePostAtBottom *)
handleCreatePostAtTop ==
    /\ nextId <= MaxPosts
    /\ Begin(Via([NewCall("create") EXCEPT !.args = CreateAt(TopPosition(posts))],
                 "handleCreatePostAtTop"))

handleCreatePostAtBottom ==
    /\ nextId <= MaxPosts
    /\ Begin(Via([NewCall("create") EXCEPT !.args = CreateAt(BottomPosition(posts))],
                 "handleCreatePostAtBottom"))

(* what the handler tells the user when it is over: toast.success at the end *)
(* of the try block, toast.error in the catch block, nothing on a bare return *)
Toast(c) ==
    IF c.via = "hook" \/ c.pc # "done" \/ Pending(c) THEN "none"
    ELSE IF c.result = "rejected" THEN "error"
    ELSE IF c.result = "ok" THEN "success"
    ELSE "none"

(* ---------------------------------------- App: the array-index-is-identity grid *)
UNDEF == "undefined"

Cell(id, image, imagePath, caption, scheduledTime, notes) ==
    [id |-> id, image |-> image, imagePath |-> imagePath, caption |-> caption,
     scheduledTime |-> scheduledTime, notes |-> notes]

EmptyCell(id) == Cell(id, UNDEF, UNDEF, UNDEF, UNDEF, UNDEF)

Payloads ==
    {[image |-> UNDEF, imagePath |-> UNDEF, caption |-> UNDEF, scheduledTime |-> UNDEF, notes |-> UNDEF],
     [image |-> "iX", imagePath |-> "pX", caption |-> "cX", scheduledTime |-> "tX", notes |-> "nX"],
     [image |-> "iY", imagePath |-> "pY", caption |-> "cY", scheduledTime |-> UNDEF, notes |-> UNDEF]}

WithPayload(id, p) == Cell(id, p.image, p.imagePath, p.caption, p.scheduledTime, p.notes)

PayloadOf(c) ==
    [image |-> c.image, imagePath |-> c.imagePath, caption |-> c.caption,
     scheduledTime |-> c.scheduledTime, notes |-> c.notes]

NoSwap == [dragId |-> 0, dropId |-> 0, before |-> <<>>]

(* setPosts(prev => ...) of handleSwapPosts: the new object of each of the two cells *)
SwappedCell(id, from) ==
    Cell(id, from.image, from.imagePath, from.caption, from.scheduledTime, UNDEF)

SwapCells(s, dragId, dropId) ==
    LET d == FindIndex(s, dragId)
        e == FindIndex(s, dropId)
    IN IF d = 0 \/ e = 0 THEN s
       ELSE [i \in 1..Len(s) |->
                IF s[i].id = dragId THEN SwappedCell(dragId, s[e])
                ELSE IF s[i].id = dropId THEN SwappedCell(dropId, s[d])
                ELSE s[i]]

(* ------------------------------------------ App: the debounced auto-save *)
Keys == <<"image", "imagePath", "caption", "scheduledTime", "notes">>

(* JSON.stringify of a post: the id, then every key whose value is defined *)
StringifyPost(c) ==
    <<<<"id", ToString(c.id)>>>> \o
        SelectSeq([k \in 1..Len(Keys) |-> <<Keys[k], c[Keys[k]]>>], LAMBDA e : e[2] # UNDEF)

JSONStringify(s) == [i \in 1..Len(s) |-> StringifyPost(s[i])]

NoTimer == [due |-> -1, posts |-> <<>>]
TimerDue == timer.due # -1 /\ timer.due <= clock
IdleDue == \E t \in idleTimers : t <= clock

SetTimeoutKeepingDue(p) ==
    [due |-> IF timer.due # -1 THEN timer.due ELSE clock + Delay, posts |-> p]

(* autoSaveTimeoutRef.current = setTimeout(async () => {...}, 2000) *)
SetTimeout(p) == [due |-> clock + Delay, posts |-> p]

(* the auto-save effect, run after a render with posts p and syncing sync;   *)
(* the cleanup of its last run has cleared the pending timeout               *)
AutoSaveEffectIn(p, sync, viewing) ==
    IF accessToken = NULL \/ viewing # NULL \/ sync
    THEN /\ timer' = NoTimer
         /\ UNCHANGED <<previousPostsRef, autoSaveStatus>>
    ELSE IF JSONStringify(previousPostsRef) = JSONStringify(p)
    THEN /\ timer' = NoTimer
         /\ previousPostsRef' = p
         /\ UNCHANGED autoSaveStatus
    ELSE /\ timer' = SetTimeout(p)
         /\ autoSaveStatus' = "idle"
         /\ UNCHANGED previousPostsRef

(* the effect in a render that leaves viewingSharedFeed as it is *)
AutoSaveEffect(p, sync) == AutoSaveEffectIn(p, sync, viewingSharedFeed)

NoBurst == [edits |-> 0, len |-> 0, real |-> TRUE, last |-> -1, fired |-> 0, at |-> -1,
            took |-> <<>>, ref |-> <<>>]

(* the edit made now follows the last one by less than the delay *)
InBurst == burst.last # -1 /\ clock - burst.last < Delay

(* history: an edit of the grid to next is made now; real says that every   *)
(* edit of the burst changed the list, ref is the list the last save cycle   *)
(* before this edit took                                                     *)
NoteEdit(next) ==
    IF accessToken = NULL THEN UNCHANGED burst
    ELSE /\ burst.edits < MaxEdits
         /\ ~TimerDue /\ ~IdleDue
         /\ burst' = [edits |-> burst.edits + 1,
                      len |-> IF InBurst THEN burst.len + 1 ELSE 1,
                      real |-> (InBurst => burst.real) /\ next # cells,
                      last |-> clock,
                      fired |-> IF InBurst THEN burst.fired ELSE 0,
                      at |-> IF InBurst THEN burst.at ELSE -1,
                      took |-> IF InBurst THEN burst.took ELSE <<>>,
                      ref |-> IF burst.fired > 0 THEN burst.took ELSE burst.ref]

(* setPosts(next) of a handler, the render and the effects that follow *)
Edit(next) ==
    /\ cells' = next
    /\ NoteEdit(next)
    /\ AutoSaveEffect(next, syncing)
    /\ UNCHANGED <<accessToken, syncing, clock, idleTimers, saves, kv>>

handleSwapPosts(dragId, dropId) ==
    /\ IF FindIndex(cells, dragId) = 0 \/ FindIndex(cells, dropId) = 0
       THEN UNCHANGED <<cells, saveVars>>
       ELSE Edit(SwapCells(cells, dragId, dropId))
    /\ lastSwap' = [dragId |-> dragId, dropId |-> dropId, before |-> cells]
    /\ UNCHANGED <<hookVars, pageVars>>

(* handleSavePost: the edit modal stores caption, scheduledTime and notes *)
handleSavePost(id, caption, scheduledTime, notes) ==
    /\ Edit([i \in 1..Len(cells) |->
                IF cells[i].id = id
                THEN [cells[i] EXCEPT !.caption = caption,
                                      !.scheduledTime = scheduledTime,
                                      !.notes = notes]
                ELSE cells[i]])
    /\ lastSwap' = NoSwap
    /\ UNCHANGED <<hookVars, pageVars>>

(* handleRemoveImage: the cell keeps its id and nothing else *)
handleRemoveImage(id) ==
    /\ Edit([i \in 1..Len(cells) |-> IF cells[i].id = id THEN EmptyCell(id) ELSE cells[i]])
    /\ lastSwap' = NoSwap
    /\ UNCHANGED <<hookVars, pageVars>>

(* the auto-save badge of the header: hidden while the status is idle *)
Badge(status) ==
    CASE status = "saving" -> "Automatikus mentes..."
      [] status = "saved" -> "Mentve"
      [] OTHER -> "hidden"

(* ------------------------------------------------- App: performSave runs *)
NewSave(by, p) ==
    [by |-> by, posts |-> p, pc |-> "get", todo |-> {}, result |-> "none", notice |-> "none"]

(* !x of a string or of a missing value *)
Falsy(x) == x = UNDEF \/ x = NULL \/ x = ""

(* .filter(({ post }) => post.image): the indexes of the posts that are saved *)
WithImage(p) == {i \in 1..Len(p) : ~Falsy(p[i].image)}

(* x || null *)
OrNull(x) == IF Falsy(x) THEN NULL ELSE x

(* the images a file dropped on a cell is read to: base64 data URLs *)
DataUrls == {"data:1"}

(* server: ${user.id}/${id}-${Date.now()}.${extension}, the file an upload creates *)
FileName(id) == "user/" \o ToString(id)

(* server: createSignedUrl(post.imagePath, 3600) *)
SignedUrl(imagePath) == "https://" \o imagePath

(* the body of the POST for the post at array index i - 1 *)
SaveBody(post, i) ==
    [id |-> i,
     image |-> IF ~Falsy(post.imagePath)
               THEN <<"EXISTING_PATH:", post.imagePath>>
               ELSE <<"", post.image>>,
     caption |-> OrNull(post.caption),
     scheduledTime |-> OrNull(post.scheduledTime),
     notes |-> OrNull(post.notes)]

(* server, POST /posts: the row stored under the id of the body *)
PostData(body, existing) ==
    [imagePath |-> IF body.image[1] = "EXISTING_PATH:" THEN body.image[2]
                   ELSE IF body.image[2] \in DataUrls THEN FileName(body.id)
                   ELSE OrNull(existing),
     caption |-> OrNull(body.caption),
     scheduledTime |-> OrNull(body.scheduledTime),
     notes |-> OrNull(body.notes)]

KvSet(rows, id, row) == [j \in DOMAIN rows \cup {id} |-> IF j = id THEN row ELSE rows[j]]

(* a run that has no request left drops the list its closure held *)
Release(run) == IF run.pc = "over" THEN [run EXCEPT !.posts = <<>>] ELSE run

(* what the caller of performSave does when the run r settles with res:     *)
(* the timer callback sets the badge; handleSaveAll alerts and ends syncing  *)
Settle(r, run, res) ==
    IF run.by = "auto"
    THEN /\ saves' = [saves EXCEPT ![r] = Release([run EXCEPT !.result = res])]
         /\ autoSaveStatus' = IF res = "ok" THEN "saved" ELSE "idle"
         /\ idleTimers' = IF res = "ok" THEN idleTimers \cup {clock + SavedDelay}
                          ELSE idleTimers
         /\ UNCHANGED <<syncing, timer, previousPostsRef>>
    ELSE /\ saves' = [saves EXCEPT ![r] =
                         Release([run EXCEPT !.result = res,
                                             !.notice = IF res = "ok" THEN "alert: saved"
                                                        ELSE "alert: failed"])]
         /\ syncing' = FALSE
         /\ AutoSaveEffect(cells, FALSE)
         /\ UNCHANGED idleTimers

(* the run goes on to its next await *)
Proceed(r, run) ==
    /\ saves' = [saves EXCEPT ![r] = Release(run)]
    /\ UNCHANGED <<syncing, timer, idleTimers, previousPostsRef, autoSaveStatus>>

SaveFrame == UNCHANGED <<pageVars, store, posts, call, prev, nextId, ops, cells, lastSwap,
                         accessToken, clock, burst>>

(* Step 0: GET /posts answers, or the request fails and performSave rejects *)
SaveGet ==
    \E r \in DOMAIN saves, net \in {FALSE} \cup {drops > 0} :
        /\ saves[r].pc = "get"
        /\ IF net THEN Settle(r, [saves[r] EXCEPT !.pc = "over"], "failed")
           ELSE Proceed(r, [saves[r] EXCEPT !.pc = "delete"])
        /\ drops' = IF net THEN drops - 1 ELSE drops
        /\ UNCHANGED kv
        /\ SaveFrame

(* Step 1: DELETE /posts removes every row; then all the POSTs are sent *)
SaveDelete ==
    \E r \in DOMAIN saves, net \in {FALSE} \cup {drops > 0} :
        LET todo == WithImage(saves[r].posts)
        IN /\ saves[r].pc = "delete"
           /\ IF net THEN Settle(r, [saves[r] EXCEPT !.pc = "over"], "failed")
              ELSE IF todo = {} THEN Settle(r, [saves[r] EXCEPT !.pc = "over"], "ok")
              ELSE Proceed(r, [saves[r] EXCEPT !.pc = "post", !.todo = todo])
           /\ kv' = IF net THEN kv ELSE <<>>
           /\ drops' = IF net THEN drops - 1 ELSE drops
           /\ SaveFrame

(* Step 2: one of the POSTs is answered; Promise.all rejects with the first *)
(* failure and resolves with the last success, the others still arrive      *)
SavePost ==
    \E r \in DOMAIN saves, net \in {FALSE} \cup {drops > 0} :
        \E i \in saves[r].todo :
            LET run == [saves[r] EXCEPT !.todo = @ \ {i},
                                       !.pc = IF saves[r].todo = {i} THEN "over" ELSE @]
                existing == IF i \in DOMAIN kv THEN kv[i].imagePath ELSE NULL
            IN /\ saves[r].pc = "post"
               /\ IF run.result # "none" THEN Proceed(r, run)
                  ELSE IF net THEN Settle(r, run, "failed")
                  ELSE IF run.todo = {} THEN Settle(r, run, "ok")
                  ELSE Proceed(r, run)
               /\ kv' = IF net THEN kv
                        ELSE KvSet(kv, i, PostData(SaveBody(saves[r].posts[i], i), existing))
               /\ drops' = IF net THEN drops - 1 ELSE drops
               /\ SaveFrame

(* the auto-save timeout fires: the callback of the render that set it runs *)
AutoSaveFire ==
    /\ TimerDue
    /\ autoSaveStatus' = "saving"
    /\ previousPostsRef' = timer.posts
    /\ saves' = Append(saves, NewSave("auto", timer.posts))
    /\ timer' = NoTimer
    /\ burst' = [burst EXCEPT !.fired = @ + 1, !.at = clock, !.took = timer.posts]
    /\ UNCHANGED <<hookVars, pageVars, cells, lastSwap, accessToken, syncing, clock, idleTimers, kv>>

(* setTimeout(() => setAutoSaveStatus('idle'), 3000) fires *)
IdleFire ==
    \E t \in idleTimers :
        /\ t <= clock
        /\ idleTimers' = idleTimers \ {t}
        /\ autoSaveStatus' = "idle"
        /\ UNCHANGED <<hookVars, pageVars, cells, lastSwap, accessToken, syncing, clock, timer,
                       previousPostsRef, saves, kv, burst>>

(* a second passes while a timeout is pending or the burst of edits is open; *)
(* a timeout that is due fires first                                         *)
Tick ==
    /\ timer # NoTimer \/ idleTimers # {} \/ InBurst
    /\ ~TimerDue /\ ~IdleDue
    /\ clock' = clock + 1
    /\ UNCHANGED <<hookVars, pageVars, cells, lastSwap, accessToken, syncing, timer, idleTimers,
                   previousPostsRef, autoSaveStatus, saves, kv, burst>>

(* handleSaveAll: the manual save *)
handleSaveAll ==
    /\ accessToken # NULL
    /\ ~syncing
    /\ Len(saves) < MaxSaves
    /\ ~TimerDue /\ ~IdleDue
    /\ syncing' = TRUE
    /\ AutoSaveEffect(cells, TRUE)
    /\ saves' = Append(saves, NewSave("manual", cells))
    /\ UNCHANGED <<hookVars, pageVars, cells, lastSwap, accessToken, clock, idleTimers, kv, burst>>

(* ------------------------------------------------ App: the snapshot loader *)
(* a post as GET /posts and GET /feeds/view return it *)
SavedPost(id, image, imagePath, caption, scheduledTime, notes) ==
    [id |-> id, image |-> image, imagePath |-> imagePath, caption |-> caption,
     scheduledTime |-> scheduledTime, notes |-> notes]

(* [...data.posts].sort((a, b) => a.id - b.id): stable *)
RECURSIVE InsertById(_, _)
InsertById(s, p) ==
    IF s = <<>> THEN <<p>>
    ELSE IF s[Len(s)].id <= p.id THEN Append(s, p)
    ELSE Append(InsertById(SubSeq(s, 1, Len(s) - 1), p), s[Len(s)])

RECURSIVE SortById(_)
SortById(s) ==
    IF s = <<>> THEN <<>> ELSE InsertById(SortById(SubSeq(s, 1, Len(s) - 1)), s[Len(s)])

(* new Map(sortedPosts.map(p => [p.id, p])): a later entry replaces an earlier one *)
MapHas(s, i) == \E k \in 1..Len(s) : s[k].id = i
MapGet(s, i) == s[Max({k \in 1..Len(s) : s[k].id = i})]

(* Math.max(...sortedPosts.map(p => p.id)) *)
MaxId(s) == Max({s[k].id : k \in 1..Len(s)})

MinLengthOfMaxId(s) == MaxId(s)

(* Math.max(maxId, 9) *)
MinLength(s) == IF MaxId(s) > MinGrid THEN MaxId(s) ELSE MinGrid

(* Array.from({ length: 9 }, (_, i) => ({ id: i + 1 })) *)
EmptyGrid == [i \in 1..MinGrid |-> EmptyCell(i)]

ReconstructWithoutMax(data) ==
    [i \in 1..MinGrid |->
        IF MapHas(SortById(data), i)
        THEN LET savedPost == MapGet(SortById(data), i)
             IN Cell(i, savedPost.image, savedPost.imagePath, savedPost.caption,
                     savedPost.scheduledTime, savedPost.notes)
        ELSE EmptyCell(i)]

(* loadPosts: the list from 1 to minLength, blanks filled in *)
Reconstruct(data) ==
    [i \in 1..MinLength(data) |->
        IF MapHas(SortById(data), i)
        THEN LET savedPost == MapGet(SortById(data), i)
             IN Cell(i, savedPost.image, savedPost.imagePath, savedPost.caption,
                     savedPost.scheduledTime, savedPost.notes)
        ELSE EmptyCell(i)]

(* handleViewSharedFeed: the same list, built without imagePath *)
ReconstructShared(data) ==
    [i \in 1..MinLength(data) |->
        IF MapHas(SortById(data), i)
        THEN LET savedPost == MapGet(SortById(data), i)
             IN Cell(i, savedPost.image, UNDEF, savedPost.caption,
                     savedPost.scheduledTime, savedPost.notes)
        ELSE EmptyCell(i)]

(* ids.length !== new Set(ids).size, on the reconstructed list *)
DuplicateIds(s) == Len(s) # Cardinality({s[k].id : k \in 1..Len(s)})

(* loadPosts is called: setSyncing(true), the GET leaves *)
loadPosts ==
    /\ accessToken # NULL
    /\ load.pc # "fetch"
    /\ ~TimerDue /\ ~IdleDue
    /\ load' = [by |-> "loadPosts", pc |-> "fetch", data |-> <<>>, errors |-> {}]
    /\ syncing' = TRUE
    /\ AutoSaveEffect(cells, TRUE)
    /\ UNCHANGED <<hookVars, cells, lastSwap, accessToken, clock, idleTimers, saves, kv,
                   burst, appNextId, viewingSharedFeed, extraVars>>

(* the GET of loadPosts settles: the network drops it, or it answers data.posts *)
LoadAnswer(data) ==
    \E net \in {FALSE} \cup {drops > 0} :
        LET next == IF net \/ data = <<>> THEN cells ELSE Reconstruct(data)
        IN /\ load.pc = "fetch"
           /\ load.by = "loadPosts"
           /\ cells' = next
           /\ appNextId' = IF net \/ data = <<>> THEN appNextId ELSE MinLength(data) + 1
           /\ load' = [load EXCEPT
                  !.pc = "done",
                  !.data = IF net THEN <<>> ELSE data,
                  !.errors = IF net THEN {"Error loading posts"}
                             ELSE IF data # <<>> /\ DuplicateIds(next)
                             THEN {"DUPLICATE IDS DETECTED"}
                             ELSE {}]
           /\ syncing' = FALSE
           /\ AutoSaveEffect(next, FALSE)
           /\ drops' = IF net THEN drops - 1 ELSE drops
           /\ UNCHANGED <<store, posts, call, prev, nextId, ops, lastSwap, accessToken,
                          clock, idleTimers, saves, kv, burst, viewingSharedFeed, extraVars>>

(* the feeds another user shares with this one, as ownerId/feedNumber *)
SharedFeeds == {"owner/1"}

(* handleViewSharedFeed is called: the view is set, setSyncing(true), the GET leaves *)
handleViewSharedFeed(feed) ==
    /\ accessToken # NULL
    /\ load.pc # "fetch"
    /\ ~TimerDue /\ ~IdleDue
    /\ viewingSharedFeed' = feed
    /\ load' = [by |-> "handleViewSharedFeed", pc |-> "fetch", data |-> <<>>, errors |-> {}]
    /\ syncing' = TRUE
    /\ AutoSaveEffectIn(cells, TRUE, feed)
    /\ UNCHANGED <<hookVars, cells, lastSwap, accessToken, clock, idleTimers, saves, kv,
                   burst, appNextId, extraVars>>

(* the GET of handleViewSharedFeed settles: on a failure the view is left again *)
ViewAnswer(data) ==
    \E net \in {FALSE} \cup {drops > 0} :
        LET next == IF net THEN cells
                    ELSE IF data = <<>> THEN EmptyGrid
                    ELSE ReconstructShared(data)
            view == IF net THEN NULL ELSE viewingSharedFeed
        IN /\ load.pc = "fetch"
           /\ load.by = "handleViewSharedFeed"
           /\ cells' = next
           /\ appNextId' = IF net THEN appNextId
                           ELSE IF data = <<>> THEN MinGrid + 1
                           ELSE MinLength(data) + 1
           /\ load' = [load EXCEPT
                  !.pc = "done",
                  !.data = IF net THEN <<>> ELSE data,
                  !.errors = IF net THEN {"Error viewing shared feed"} ELSE {}]
           /\ viewingSharedFeed' = view
           /\ syncing' = FALSE
           /\ AutoSaveEffectIn(next, FALSE, view)
           /\ drops' = IF net THEN drops - 1 ELSE drops
           /\ UNCHANGED <<store, posts, call, prev, nextId, ops, lastSwap, accessToken,
                          clock, idleTimers, saves, kv, burst, extraVars>>

(* --------------------------------------- App: a save followed by a load *)
(* handleAddCell: a cell with the next id is put in front; should that id be *)
(* in use, the one after the largest is taken and nextId is set twice        *)
handleAddCell ==
    LET existingIds == {cells[i].id : i \in 1..Len(cells)}
        dup == appNextId \in existingIds
        newId == IF dup THEN Max(existingIds) + 1 ELSE appNextId
    IN /\ Edit(<<EmptyCell(newId)>> \o cells)
       /\ appNextId' \in IF dup THEN {newId + 1, newId + 2} ELSE {appNextId + 1}
       /\ lastSwap' = NoSwap
       /\ UNCHANGED <<hookVars, viewingSharedFeed, load, extraVars>>

(* onDrop of a cell with an image file: updatePost(post.id, { image }) *)
onDrop(id, image) ==
    /\ Edit([i \in 1..Len(cells) |->
                IF cells[i].id = id THEN [cells[i] EXCEPT !.image = image] ELSE cells[i]])
    /\ lastSwap' = NoSwap
    /\ UNCHANGED <<hookVars, pageVars>>

(* server, DELETE /posts: catch (error) => 500; performSave reads the body  *)
(* only if (deleteResponse.ok) and goes on to the POSTs either way          *)
SaveDeleteRefused ==
    \E r \in DOMAIN saves :
        LET todo == WithImage(saves[r].posts)
        IN /\ saves[r].pc = "delete"
           /\ drops > 0
           /\ IF todo = {} THEN Settle(r, [saves[r] EXCEPT !.pc = "over"], "ok")
              ELSE Proceed(r, [saves[r] EXCEPT !.pc = "post", !.todo = todo])
           /\ drops' = drops - 1
           /\ UNCHANGED kv
           /\ SaveFrame

(* kv.getByPrefix: the keys found, in key order *)
RECURSIVE GetByPrefix(_)
GetByPrefix(ids) ==
    IF ids = {} THEN <<>> ELSE <<Min(ids)>> \o GetByPrefix(ids \ {Min(ids)})

(* server, GET /posts: the rows of the user, each with a signed URL of its file *)
GetPosts(rows) ==
    LET ids == GetByPrefix(DOMAIN rows)
    IN [k \in 1..Len(ids) |->
           SavedPost(ids[k],
                     IF Falsy(rows[ids[k]].imagePath) THEN UNDEF
                     ELSE SignedUrl(rows[ids[k]].imagePath),
                     rows[ids[k]].imagePath, rows[ids[k]].caption,
                     rows[ids[k]].scheduledTime, rows[ids[k]].notes)]

(* the GET of loadPosts is answered from the rows the server holds now *)
LoadFromServer == LoadAnswer(GetPosts(kv))

(* ------------------------------------------- usePosts: the fetch effect *)
(* the posts table of the other feed, ordered by position *)
OtherFeed == <<[id |-> 101, position |-> 0, caption |-> "cB", scheduled_time |-> NULL]>>

(* the rows with the given ids as the client receives them *)
RECURSIVE TableRows(_, _)
TableRows(st, ids) ==
    IF ids = {} THEN <<>>
    ELSE <<PostOf(st, Min(ids))>> \o TableRows(st, ids \ {Min(ids)})

(* select('*').eq('feed_id', feedId).order('position') as the table has it now *)
SelectPosts(feed) ==
    IF feed = "A" THEN SortByPosition(TableRows(store, DOMAIN store))
    ELSE OtherFeed

FeedFrame == UNCHANGED <<store, call, prev, nextId, ops, gridVars, appNextId,
                         viewingSharedFeed, load, commentVars, editorVars>>

(* the page is rendered with another feedId: the effect runs again and its   *)
(* fetchPosts sends the select; nothing of the run before is cancelled        *)
SetFeedId(feed) ==
    /\ feed # feedId
    /\ feedId' = feed
    /\ fetchPosts' = fetchPosts \cup {[feed |-> feed, pc |-> "select", data |-> <<>>]}
    /\ UNCHANGED <<posts, drops>>
    /\ FeedFrame

(* the database runs the select of a fetchPosts *)
FetchSelect ==
    \E r \in fetchPosts :
        /\ r.pc = "select"
        /\ fetchPosts' = (fetchPosts \ {r}) \cup {[r EXCEPT !.pc = "answer", !.data = SelectPosts(r.feed)]}
        /\ UNCHANGED <<feedId, posts, drops>>
        /\ FeedFrame

(* a fetchPosts is answered: setPosts(data || []), or setError on a failure *)
FetchAnswer ==
    \E r \in fetchPosts, net \in {FALSE} \cup {drops > 0} :
        /\ r.pc = "answer"
        /\ fetchPosts' = fetchPosts \ {r}
        /\ posts' = IF net THEN posts ELSE r.data
        /\ drops' = IF net THEN drops - 1 ELSE drops
        /\ UNCHANGED feedId
        /\ FeedFrame

(* ------------------------------------------------------------ useComments *)
Comment(id, content) == [id |-> id, content |-> content]

NoChannel == [subscribed |-> FALSE, events |-> {}, dupes |-> 0]

(* the hook before its effect has run; the post has no comment yet *)
NoComments ==
    /\ comments = <<>>
    /\ commentTable = [rows |-> <<>>, issued |-> 0]
    /\ channel = NoChannel
    /\ fetchComments = [pc |-> "idle", data |-> <<>>]
    /\ feedId = "A"
    /\ fetchPosts = {}

(* the channel hands a change of the table to the subscriber of the post *)
Emit(event, id, content) ==
    IF channel.subscribed
    THEN [channel EXCEPT !.events = @ \cup {[event |-> event, id |-> id, content |-> content]}]
    ELSE channel

CommentFrame == UNCHANGED <<hookVars, gridVars, appNextId, viewingSharedFeed, load, feedVars,
                            editorVars>>

(* the effect of useComments for a post: fetchComments() is called, its select *)
(* leaves, and the channel is subscribed                                      *)
useCommentsEffect ==
    /\ fetchComments.pc = "idle"
    /\ fetchComments' = [pc |-> "select", data |-> <<>>]
    /\ channel' = [subscribed |-> TRUE, events |-> {}, dupes |-> MaxDupes]
    /\ UNCHANGED <<comments, commentTable>>
    /\ CommentFrame

(* the database runs the select of fetchComments: the rows by created_at *)
SelectComments ==
    /\ fetchComments.pc = "select"
    /\ fetchComments' = [pc |-> "answer", data |-> commentTable.rows]
    /\ UNCHANGED <<comments, commentTable, channel>>
    /\ CommentFrame

(* the select is answered: setComments(commentsWithUsers) *)
FetchCommentsAnswer ==
    /\ fetchComments.pc = "answer"
    /\ comments' = [k \in 1..Len(fetchComments.data) |->
                       Comment(fetchComments.data[k].id, fetchComments.data[k].content)]
    /\ fetchComments' = [fetchComments EXCEPT !.pc = "done"]
    /\ UNCHANGED <<commentTable, channel>>
    /\ CommentFrame

CommentIds == {commentTable.rows[k].id : k \in 1..Len(commentTable.rows)}

CommentWriteFrame ==
    /\ ops > 0
    /\ ops' = ops - 1
    /\ UNCHANGED <<comments, fetchComments>>
    /\ UNCHANGED <<store, posts, call, prev, nextId, drops, gridVars,
                   appNextId, viewingSharedFeed, load, feedVars, editorVars>>

(* addComment(content) of this or another user: the row is inserted *)
addComment(content) ==
    LET id == commentTable.issued + 1
    IN /\ id <= MaxComments
       /\ commentTable' = [rows |-> Append(commentTable.rows, Comment(id, content)),
                           issued |-> id]
       /\ channel' = Emit("INSERT", id, content)
       /\ CommentWriteFrame

(* updateComment(commentId, content): update({content, updated_at}).eq('id', commentId) *)
updateComment(commentId, content) ==
    /\ commentId \in CommentIds
    /\ commentTable' = [commentTable EXCEPT !.rows = MapReplace(@, commentId, Comment(commentId, content))]
    /\ channel' = Emit("UPDATE", commentId, content)
    /\ CommentWriteFrame

(* deleteComment(commentId): delete().eq('id', commentId) *)
deleteComment(commentId) ==
    /\ commentId \in CommentIds
    /\ commentTable' = [commentTable EXCEPT !.rows = Filter(@, commentId)]
    /\ channel' = Emit("DELETE", commentId, NULL)
    /\ CommentWriteFrame

(* INSERT: setComments((prev) => [...prev, newComment]) *)
OnInsert(cur, e) == Append(cur, Comment(e.id, e.content))

(* UPDATE: prev.map(comment => comment.id === payload.new.id ? {...comment, content} : comment) *)
OnUpdate(cur, e) ==
    [k \in 1..Len(cur) |-> IF cur[k].id = e.id THEN [cur[k] EXCEPT !.content = e.content]
                           ELSE cur[k]]

(* DELETE: prev.filter(comment => comment.id !== payload.old.id) *)
OnDelete(cur, e) == Filter(cur, e.id)

OnEvent(cur, e) ==
    IF e.event = "INSERT" THEN OnInsert(cur, e)
    ELSE IF e.event = "UPDATE" THEN OnUpdate(cur, e)
    ELSE OnDelete(cur, e)

(* the channel delivers one of its events, in any order, and may deliver it again *)
Deliver ==
    \E e \in channel.events, again \in {FALSE} \cup {channel.dupes > 0} :
        /\ comments' = OnEvent(comments, e)
        /\ channel' = [channel EXCEPT !.events = IF again THEN @ ELSE @ \ {e},
                                      !.dupes = IF again THEN @ - 1 ELSE @]
        /\ UNCHANGED <<commentTable, fetchComments>>
        /\ CommentFrame

(* ------------------------------ FeedEditorPage: sharing and the swap mode *)
(* the posts another user (the owner) has stored on the server *)
OwnerPosts ==
    [i \in 1..2 |-> [imagePath |-> "pO", caption |-> "cO", scheduledTime |-> NULL,
                     notes |-> IF i = 1 THEN "nO" ELSE NULL]]

(* share:${ownerId}:feed:${feedNumber}:user:${userId}: the owner shares feed 1 with the user *)
Shares == {<<"owner", "user">>}

(* no second call has been started *)
NoOverlap == [kind |-> "none", pc |-> "idle", inflight |-> {}]

(* the page before its effects have run *)
NoEditor ==
    /\ editor = [isSharedFeed |-> FALSE, swapMode |-> FALSE, selectedForSwap |-> <<>>,
                 owner_id |-> "user", loadFeedName |-> "idle", awaiting |-> {}]
    /\ overlap = NoOverlap

EditorFrame == UNCHANGED <<hookVars, gridVars, appNextId, viewingSharedFeed, load,
                           commentVars, feedVars>>

(* the effect [feedId, user?.id] runs on a feed whose row has the given owner: *)
(* loadFeedName sends its select                                              *)
OpenFeed(owner) ==
    /\ editor.loadFeedName = "idle"
    /\ editor' = [editor EXCEPT !.owner_id = owner, !.loadFeedName = "select"]
    /\ UNCHANGED <<sharedKv, overlap>>
    /\ EditorFrame

(* the select of loadFeedName is answered: setIsSharedFeed(data.owner_id !== user?.id); *)
(* on an error nothing is set                                                        *)
LoadFeedNameAnswer ==
    \E ok \in BOOLEAN :
        /\ editor.loadFeedName = "select"
        /\ editor' = [editor EXCEPT
               !.loadFeedName = IF ok THEN "done" ELSE "failed",
               !.isSharedFeed = IF ok THEN editor.owner_id # "user" ELSE @]
        /\ UNCHANGED <<sharedKv, overlap>>
        /\ EditorFrame

(* the page is mounted and shows the buttons that {!isSharedFeed && ...} guards *)
ShowsMutationButtons == editor.loadFeedName # "idle" /\ ~editor.isSharedFeed

(* server, PUT /feeds/:ownerId/:feedNumber/posts/:postId/notes, called by the user: *)
(* the owner or a user the feed is shared with may set the notes of a post          *)
PutNotes(ownerId, postId, notes) ==
    LET hasAccess == ownerId = "user" \/ <<ownerId, "user">> \in Shares
        rows == IF ownerId = "user" THEN kv
                ELSE IF ownerId = "owner" THEN sharedKv
                ELSE <<>>
        found == hasAccess /\ postId \in DOMAIN rows
        updatedPost == [rows[postId] EXCEPT !.notes = OrNull(notes)]
    IN /\ accessToken # NULL
       /\ kv' = IF found /\ ownerId = "user" THEN KvSet(kv, postId, updatedPost) ELSE kv
       /\ sharedKv' = IF found /\ ownerId = "owner" THEN KvSet(sharedKv, postId, updatedPost)
                      ELSE sharedKv
       /\ UNCHANGED <<hookVars, cells, lastSwap, accessToken, syncing, clock, timer,
                      idleTimers, previousPostsRef, autoSaveStatus, saves, burst,
                      appNextId, viewingSharedFeed, load, commentVars, feedVars,
                      editor, overlap>>

(* ------------------------------------------- FeedEditorPage: the swap mode *)
(* swapPosts as called now: it reads the positions from the posts of this render *)
SwapCall(postId1, postId2) ==
    LET i1 == FindIndex(posts, postId1)
        i2 == FindIndex(posts, postId2)
    IN IF i1 = 0 \/ i2 = 0
       THEN [NewCall("swap") EXCEPT !.id1 = postId1, !.id2 = postId2,
                 !.pc = "done", !.result = "rejected", !.errKind = "notfound"]
       ELSE [NewCall("swap") EXCEPT !.id1 = postId1, !.id2 = postId2,
                 !.pos1 = posts[i1].position, !.pos2 = posts[i2].position]

(* the call of a slot: the hook runs every call it is given, side by side *)
SlotCall(slot) == IF slot = "call" THEN call ELSE overlap

InFlight(c) == c.pc \in {"ready", "waiting"}

(* a handler whose await has resolved runs on before the next click is handled *)
Resumed == \A slot \in editor.awaiting : InFlight(SlotCall(slot))

(* the "Posztok cseréje" button (!isSharedFeed && filledCount >= 2 && !swapMode) *)
(* and the "Mégse" button of the swap mode banner                                *)
toggleSwapMode ==
    /\ Resumed
    /\ editor.swapMode \/ (~editor.isSharedFeed /\ Len(posts) >= 2)
    /\ editor' = [editor EXCEPT !.swapMode = ~@, !.selectedForSwap = <<>>]
    /\ UNCHANGED <<sharedKv, overlap>>
    /\ EditorFrame

Without(s, x) == SelectSeq(s, LAMBDA y : y # x)

(* a click on a card in swap mode: deselect, or select and, with two selected, *)
(* await swapPosts(newSelection[0], newSelection[1])                           *)
handleSelectForSwap(postId) ==
    LET sel == editor.selectedForSwap
        newSelection == Append(sel, postId)
        c == Via(SwapCall(newSelection[1], newSelection[2]), "handleSelectForSwap")
        slot == IF InFlight(call) THEN "overlap" ELSE "call"
    IN IF \E i \in 1..Len(sel) : sel[i] = postId
       THEN /\ editor' = [editor EXCEPT !.selectedForSwap = Without(sel, postId)]
            /\ UNCHANGED <<hookVars, overlap>>
       ELSE IF Len(sel) >= 2
       THEN UNCHANGED <<hookVars, editor, overlap>>
       ELSE IF Len(newSelection) < 2
       THEN /\ editor' = [editor EXCEPT !.selectedForSwap = newSelection]
            /\ UNCHANGED <<hookVars, overlap>>
       ELSE /\ ops > 0
            /\ ~InFlight(overlap)
            /\ ops' = ops - 1
            /\ editor' = [editor EXCEPT !.selectedForSwap = newSelection,
                                        !.awaiting = @ \cup {slot}]
            /\ call' = IF slot = "call" THEN c ELSE call
            /\ overlap' = IF slot = "overlap" THEN c ELSE overlap
            /\ prev' = IF slot = "call" THEN NoCall ELSE prev
            /\ UNCHANGED <<store, posts, nextId, drops>>

(* a click on a card: in swap mode it selects, otherwise it opens the modal *)
handleEditPost(id) ==
    /\ Resumed
    /\ editor.swapMode
    /\ handleSelectForSwap(id)
    /\ UNCHANGED <<sharedKv, gridVars, appNextId, viewingSharedFeed, load,
                   commentVars, feedVars>>

(* handleSelectForSwap after its await: toast, then setSelectedForSwap([]) *)
AfterSwap ==
    \E slot \in editor.awaiting :
        /\ ~InFlight(SlotCall(slot))
        /\ editor' = [editor EXCEPT !.selectedForSwap = <<>>, !.awaiting = @ \ {slot}]
        /\ UNCHANGED <<sharedKv, overlap>>
        /\ EditorFrame

(* the request of the next step of the overlapping call leaves for the store *)
IssueOverlap ==
    /\ overlap.pc = "ready"
    /\ overlap.step <= NumWrites(overlap)
    /\ overlap' = Await([overlap EXCEPT !.inflight = @ \cup {overlap.step}, !.issued = @ + 1])
    /\ UNCHANGED <<editor, sharedKv>>
    /\ EditorFrame

(* a request of the overlapping call settles *)
CompleteOverlap ==
    \E k \in overlap.inflight, net \in {FALSE} \cup {drops > 0} :
        LET w == WriteOf(overlap, k)
            r == IF net THEN [store |-> store, status |-> "network", id |-> 0]
                 ELSE StoreApply(store, w, nextId)
            c == IF r.status = "ok" THEN OnWriteOk(overlap, k)
                 ELSE OnWriteError(overlap, k, r.status)
        IN /\ store' = r.store
           /\ overlap' = c
           /\ posts' = IF c.pc = "done" /\ c.result = "ok"
                       THEN SetPosts(overlap, posts, r.store, r.id)
                       ELSE posts
           /\ drops' = IF net THEN drops - 1 ELSE drops
           /\ UNCHANGED <<call, prev, nextId, ops, gridVars, appNextId, viewingSharedFeed,
                          load, commentVars, feedVars, editor, sharedKv>>

(* no load has been started *)
NoLoad == [by |-> "none", pc |-> "idle", data |-> <<>>, errors |-> {}]

(* ---------------------------------------------------------- specifications *)
(* App before login: no token, nothing scheduled, nothing saved *)
LoggedOut ==
    /\ accessToken = NULL
    /\ syncing = FALSE
    /\ clock = 0
    /\ timer = NoTimer
    /\ idleTimers = {}
    /\ previousPostsRef = <<>>
    /\ autoSaveStatus = "idle"
    /\ saves = <<>>
    /\ kv = <<>>
    /\ burst = NoBurst
    /\ appNextId = GridSize + 1
    /\ viewingSharedFeed = NULL
    /\ load = NoLoad
    /\ NoComments
    /\ NoEditor
    /\ sharedKv = <<>>

InitialStore(n) ==
    [i \in 1..n |-> Row(i - 1, IF i = 2 THEN NULL ELSE "cA", IF i = 1 THEN "t1" ELSE NULL)]

(* the feed as loaded: the list is the table ordered by position *)
Loaded(n) ==
    /\ store = InitialStore(n)
    /\ posts = [i \in 1..n |-> PostOf(InitialStore(n), i)]
    /\ nextId = n + 1
    /\ call = NoCall
    /\ prev = NoCall
    /\ cells = [i \in 1..GridSize |-> EmptyCell(i)]
    /\ lastSwap = NoSwap
    /\ LoggedOut

(* Spec: every operation of the hook, on a network that drops nothing *)
FeedSizes == {0, 2, 3}

Init ==
    /\ \E n \in FeedSizes : Loaded(n)
    /\ ops = MaxOps
    /\ drops = 0

Next ==
    \/ \E a \in CreateArgs(posts) : createPost(a)
    \/ \E id \in KnownIds, a \in UpdateArgs(posts) : updatePost(id, a)
    \/ \E id \in KnownIds : deletePost(id)
    \/ \E list \in ReorderLists(posts) \cup RetryLists : reorderPosts(list)
    \/ \E a \in KnownIds, b \in KnownIds : swapPosts(a, b)
    \/ IssueWrite
    \/ CompleteWrite

Spec == Init /\ [][Next]_vars

(* the two reconciliation operations on a network that may drop requests *)
InitEngine == Loaded(3) /\ ops = MaxOps /\ drops = MaxDrops

NextEngine ==
    \/ \E list \in ReorderLists(posts) \cup RetryLists : reorderPosts(list)
    \/ \E a \in KnownIds, b \in KnownIds : swapPosts(a, b)
    \/ IssueWrite
    \/ CompleteWrite

SpecEngine == InitEngine /\ [][NextEngine]_vars

(* swapPosts alone, as the editor page with the swap mode uses the hook *)
InitSwap == Loaded(3) /\ ops = MaxSwaps /\ drops = MaxDrops

NextSwap ==
    \/ \E a \in KnownIds, b \in KnownIds : swapPosts(a, b)
    \/ IssueWrite
    \/ CompleteWrite

SpecSwap == InitSwap /\ [][NextSwap]_vars

(* reorderPosts alone, as the drag-and-drop editor page uses the hook *)
InitReorder == Loaded(3) /\ ops = MaxReorders /\ drops = MaxDrops

NextReorder ==
    \/ \E list \in ReorderLists(posts) \cup RetryLists : reorderPosts(list)
    \/ IssueWrite
    \/ CompleteWrite

SpecReorder == InitReorder /\ [][NextReorder]_vars

(* the drag-and-drop editor page: its handlers over the hook *)
InitDrag ==
    /\ \E n \in FeedSizes : Loaded(n)
    /\ ops = MaxOps
    /\ drops = MaxDrops

NextDrag ==
    \/ handleCreateEmptyPost
    \/ ResumeCreateEmptyPost
    \/ \E d \in KnownIds, e \in KnownIds : handleSwapPostsEditor(d, e)
    \/ \E id \in KnownIds : handleDeletePost(id)
    \/ IssueWrite
    \/ CompleteWrite

SpecDrag == InitDrag /\ [][NextDrag]_vars

(* the insert buttons of the swap-mode editor page *)
InitInsert ==
    /\ \E n \in FeedSizes : Loaded(n)
    /\ ops = MaxInserts
    /\ drops = MaxDrops

NextInsert ==
    \/ handleCreatePostAtTop
    \/ handleCreatePostAtBottom
    \/ IssueWrite
    \/ CompleteWrite

SpecInsert == InitInsert /\ [][NextInsert]_vars

(* the rows the server holds once the list p has been saved *)
Saved(p) == [i \in WithImage(p) |-> PostData(SaveBody(p[i], i), NULL)]

(* App logged in, the posts loaded and saved once: nothing is pending *)
AppLoaded ==
    /\ store = InitialStore(0)
    /\ posts = <<>>
    /\ nextId = 1
    /\ call = NoCall
    /\ prev = NoCall
    /\ ops = 0
    /\ cells \in {[i \in 1..GridSize |-> WithPayload(i, f[i])] : f \in [1..GridSize -> Payloads]}
    /\ cells[1].notes # UNDEF
    /\ \A i \in 2..GridSize : cells[i].notes = UNDEF
    /\ \A i \in 2..GridSize : cells[i].image = UNDEF <=> i = GridSize
    /\ lastSwap = NoSwap
    /\ accessToken = "token"
    /\ syncing = FALSE
    /\ clock = 0
    /\ timer = NoTimer
    /\ idleTimers = {}
    /\ previousPostsRef = cells
    /\ autoSaveStatus = "idle"
    /\ saves = <<>>
    /\ kv = Saved(cells)
    /\ burst = [NoBurst EXCEPT !.ref = cells]
    /\ appNextId = GridSize + 1
    /\ viewingSharedFeed = NULL
    /\ load = NoLoad
    /\ NoComments
    /\ NoEditor
    /\ sharedKv = <<>>

(* drags of the last two cells onto the next one, edits of the last cell *)
EditGrid ==
    \/ \E d \in (GridSize - 1)..GridSize : handleSwapPosts(d, d + 1)
    \/ handleSavePost(GridSize, "cZ", "tZ", "nZ")
    \/ handleRemoveImage(GridSize)

NextAutoSave ==
    \/ EditGrid
    \/ AutoSaveFire
    \/ SaveGet
    \/ SaveDelete
    \/ SavePost
    \/ IdleFire
    \/ Tick

(* the auto-save on a network that drops nothing *)
InitAutoSave == AppLoaded /\ drops = 0

SpecAutoSave == InitAutoSave /\ [][NextAutoSave]_vars

(* the same with the manual save button *)
NextSave ==
    \/ NextAutoSave
    \/ handleSaveAll

InitSave == AppLoaded /\ drops = MaxFails

SpecSave == InitSave /\ [][NextSave]_vars

(* the k-th post of an answer of the server, with the id given *)
RowAt(k, id) ==
    IF k = 1 THEN SavedPost(id, "https://1", "p1", "c1", "t1", "n1")
    ELSE IF k = 2 THEN SavedPost(id, "https://2", "p2", NULL, NULL, NULL)
    ELSE SavedPost(id, NULL, NULL, "c" \o ToString(k), NULL, "n" \o ToString(k))

(* the answers of the server: up to MaxRows posts, any ids, in any order *)
Responses ==
    UNION {{[k \in 1..n |-> RowAt(k, f[k])] : f \in [1..n -> 1..MaxRowId]} : n \in 0..MaxRows}

(* App logged in with the grid it is created with, nothing loaded yet *)
InitLoad ==
    /\ store = InitialStore(0)
    /\ posts = <<>>
    /\ nextId = 1
    /\ call = NoCall
    /\ prev = NoCall
    /\ ops = 0
    /\ drops = MaxFails
    /\ cells = EmptyGrid
    /\ lastSwap = NoSwap
    /\ accessToken = "token"
    /\ syncing = FALSE
    /\ clock = 0
    /\ timer = NoTimer
    /\ idleTimers = {}
    /\ previousPostsRef = <<>>
    /\ autoSaveStatus = "idle"
    /\ saves = <<>>
    /\ kv = <<>>
    /\ burst = NoBurst
    /\ appNextId = MinGrid + 1
    /\ viewingSharedFeed = NULL
    /\ load = NoLoad
    /\ NoComments
    /\ NoEditor
    /\ sharedKv = <<>>

(* the first load after the login: the own feed, or a feed shared with the user *)
NextLoad ==
    \/ load = NoLoad /\ loadPosts
    \/ \E data \in Responses : LoadAnswer(data)
    \/ \E feed \in SharedFeeds : load = NoLoad /\ handleViewSharedFeed(feed)
    \/ \E data \in Responses : ViewAnswer(data)

(* the two snapshot loaders on any answer of the server *)
SpecLoad == InitLoad /\ [][NextLoad]_vars

(* useComments mounted for a post while comments are written to it *)
InitComments == Loaded(0) /\ ops = MaxOps + 1 /\ drops = 0

NextComments ==
    \/ useCommentsEffect
    \/ SelectComments
    \/ FetchCommentsAnswer
    \/ \E content \in {"a"} : addComment(content)
    \/ \E id \in 1..MaxComments : updateComment(id, "edited")
    \/ \E id \in 1..MaxComments : deleteComment(id)
    \/ Deliver

SpecComments == InitComments /\ [][NextComments]_vars

(* the page moves from feed A to feed B while a call of the hook or a fetch *)
(* for feed A may be in flight; the calls are started on feed A, and the     *)
(* page moves back to feed A only as long as none has been started           *)
InitFeed == Loaded(2) /\ ops = MaxStale /\ drops = 0

NextFeed ==
    \/ feedId = "A" /\ \E a \in CreateArgs(posts) : createPost(a)
    \/ feedId = "A" /\ \E id \in KnownIds, a \in UpdateArgs(posts) : updatePost(id, a)
    \/ feedId = "A" /\ \E id \in KnownIds : deletePost(id)
    \/ feedId = "A" /\ \E list \in ReorderLists(posts) : reorderPosts(list)
    \/ feedId = "A" /\ \E a \in KnownIds, b \in KnownIds : swapPosts(a, b)
    \/ IssueWrite
    \/ CompleteWrite
    \/ feedId = "A" /\ SetFeedId("B")
    \/ feedId = "B" /\ ops = MaxStale /\ SetFeedId("A")
    \/ FetchSelect
    \/ FetchAnswer

SpecFeed == InitFeed /\ [][NextFeed]_vars

(* the user, logged in, opens the editor page on an own feed or on a feed   *)
(* another user shares with them, and may call the notes endpoint            *)
InitShare ==
    /\ store = InitialStore(2)
    /\ posts = [i \in 1..2 |-> PostOf(InitialStore(2), i)]
    /\ nextId = 3
    /\ call = NoCall
    /\ prev = NoCall
    /\ ops = MaxOps
    /\ drops = 0
    /\ cells = [i \in 1..GridSize |-> EmptyCell(i)]
    /\ lastSwap = NoSwap
    /\ accessToken = "token"
    /\ syncing = FALSE
    /\ clock = 0
    /\ timer = NoTimer
    /\ idleTimers = {}
    /\ previousPostsRef = cells
    /\ autoSaveStatus = "idle"
    /\ saves = <<>>
    /\ kv = <<>>
    /\ burst = NoBurst
    /\ appNextId = GridSize + 1
    /\ viewingSharedFeed = NULL
    /\ load = NoLoad
    /\ NoComments
    /\ NoEditor
    /\ sharedKv = OwnerPosts

NextShare ==
    \/ \E owner \in {"user", "owner"} : OpenFeed(owner)
    \/ LoadFeedNameAnswer
    \/ ShowsMutationButtons /\ ~editor.swapMode /\ handleCreatePostAtTop
    \/ ShowsMutationButtons /\ ~editor.swapMode /\ handleCreatePostAtBottom
    \/ ShowsMutationButtons /\ \E id \in KnownIds \ {nextId} : handleDeletePost(id)
    \/ IssueWrite
    \/ CompleteWrite
    \/ \E ownerId \in {"user", "owner", "nobody"}, postId \in 1..3 : PutNotes(ownerId, postId, "nZ")

SpecShare == InitShare /\ [][NextShare]_vars

(* SpecSwapMode: the swap mode of the editor page on a feed of the user *)
InitSwapMode == Loaded(3) /\ ops = MaxOps /\ drops = 0

NextSwapMode ==
    \/ toggleSwapMode
    \/ \E id \in {posts[i].id : i \in 1..Len(posts)} : handleEditPost(id)
    \/ AfterSwap
    \/ IssueWrite
    \/ CompleteWrite
    \/ IssueOverlap
    \/ CompleteOverlap

SpecSwapMode == InitSwapMode /\ [][NextSwapMode]_vars

(* every operation of the hook on a network that may drop requests *)
InitFail == Loaded(2) /\ ops = MaxOps /\ drops = MaxDrops

NextFail ==
    \/ \E a \in CreateArgs(posts) : createPost(a)
    \/ \E id \in KnownIds, a \in UpdateArgs(posts) : updatePost(id, a)
    \/ \E id \in KnownIds : deletePost(id)
    \/ \E list \in ReorderLists(posts) \cup RetryLists : reorderPosts(list)
    \/ \E a \in KnownIds, b \in KnownIds : swapPosts(a, b)
    \/ IssueWrite
    \/ CompleteWrite

SpecFail == InitFail /\ [][NextFail]_vars

(* a manual save of the grid, then a load, on a server whose DELETE may fail *)
InitRoundTrip == AppLoaded /\ drops = MaxFails

NextRoundTrip ==
    \/ saves = <<>> /\ handleAddCell
    \/ saves = <<>> /\ \E id \in {cells[i].id : i \in 1..Len(cells)} : onDrop(id, "data:1")
    \/ saves = <<>> /\ \E id \in {cells[i].id : i \in 1..Len(cells)} : handleRemoveImage(id)
    \/ saves = <<>> /\ handleSaveAll
    \/ SaveGet
    \/ SaveDelete
    \/ SaveDeleteRefused
    \/ SavePost
    \/ saves # <<>> /\ saves[1].result = "ok" /\ load = NoLoad /\ loadPosts
    \/ LoadFromServer

SpecRoundTrip == InitRoundTrip /\ [][NextRoundTrip]_vars

InitGrid ==
    /\ store = InitialStore(0)
    /\ posts = <<>>
    /\ nextId = 1
    /\ call = NoCall
    /\ prev = NoCall
    /\ ops = 0
    /\ drops = 0
    /\ cells \in {[i \in 1..GridSize |-> WithPayload(i, f[i])] : f \in [1..GridSize -> Payloads]}
    /\ lastSwap = NoSwap
    /\ LoggedOut

NextGrid ==
    \/ \E d \in 1..(GridSize + 1), e \in 1..(GridSize + 1) : handleSwapPosts(d, e)
    \/ \E id \in 1..GridSize : handleSavePost(id, "cZ", "tZ", "nZ")

SpecGrid == InitGrid /\ [][NextGrid]_vars

(* ================================================================ claims *)
DistinctPositions(st) ==
    \A i \in DOMAIN st, j \in DOMAIN st : i # j => st[i].position # st[j].position

DistinctListPositions(s) ==
    \A i \in 1..Len(s), j \in 1..Len(s) : i # j => s[i].position # s[j].position

(* the entry of a list with the given id *)
Entry(s, id) == s[FindIndex(s, id)]

Listed(s) == {s[i].id : i \in 1..Len(s)}

Payload(r) == [caption |-> r.caption, scheduled_time |-> r.scheduled_time]

Engine == call.kind \in {"swap", "reorder"}
Succeeded == call.pc = "done" /\ call.result = "ok"

(* C1: after any sequence of hook operations that all completed successfully, *)
(* no two posts of the feed share a position, neither in the table nor in     *)
(* the in-memory list.                                                        *)
C1_UniquenessAtRest ==
    (AtRest /\ call.allOk /\ call.result \in {"none", "ok"}) =>
        DistinctPositions(store) /\ DistinctListPositions(posts)

C1_Witness ==
    /\ Succeeded /\ call.allOk /\ ops = 0
    /\ call.kind = "swap" /\ call.id1 # call.id2
    /\ Len(posts) >= 3

(* C2: a swapPosts(A, B), A # B, started from a table with pairwise distinct  *)
(* positions and no post at 999999 has none of its three writes rejected by   *)
(* the uniqueness constraint.                                                 *)
C2_SwapNeverRejected ==
    (call.kind = "swap" /\ call.id1 # call.id2
        /\ DistinctPositions(call.preStore)
        /\ \A i \in DOMAIN call.preStore : call.preStore[i].position # TempPosition)
    => call.errKind # "conflict"

(* C3: a reorderPosts started from any table with pairwise distinct positions *)
(* (a state left by an earlier aborted reorderPosts included) has none of its *)
(* 2N writes rejected by the uniqueness constraint.                           *)
C3_ReorderNeverRejected ==
    (call.kind = "reorder"
        /\ Len(call.list) < Offset
        /\ DistinctPositions(call.preStore))
    => call.errKind # "conflict"

(* C4: within one swapPosts or reorderPosts call at most one write is in      *)
(* flight, write k + 1 is issued only after writes 1..k have completed        *)
(* successfully, and the writes complete in program order.                    *)
C4_SequentialWrites ==
    Engine =>
        /\ Cardinality(call.inflight) <= 1
        /\ call.completed = [i \in 1..Len(call.completed) |-> i]
        /\ call.issued = Len(call.completed) + Cardinality(call.inflight)
        /\ call.inflight \subseteq {call.issued}
        /\ (call.errStep # 0 => call.issued = call.errStep)

C4_Witness ==
    /\ call.kind = "reorder" /\ call.issued = Len(call.list) + 2
    /\ call.inflight # {}

(* the table after writes 1..k of the call, applied to the table st *)
RECURSIVE ApplyPrefix(_, _, _)
ApplyPrefix(st, c, k) ==
    IF k = 0 THEN st
    ELSE StoreApply(ApplyPrefix(st, c, k - 1), WriteOf(c, k), 0).store

(* C5: when write k of a swapPosts or reorderPosts fails, the call is over    *)
(* and rejected, no write after k was issued, and the table holds exactly     *)
(* the effect of writes 1..k-1 (nothing is rolled back).                      *)
C5_AbortWithoutRollback ==
    (Engine /\ call.errStep # 0) =>
        /\ call.pc = "done" /\ call.result = "rejected"
        /\ call.issued = call.errStep
        /\ call.inflight = {}
        /\ store = ApplyPrefix(call.preStore, call, call.errStep - 1)

C5_Witness ==
    /\ call.kind = "reorder" /\ call.errKind = "network"
    /\ call.errStep = Len(call.list) + 1
    /\ store # call.preStore

(* what a swap leaves alone: ids and payloads of all posts, positions of the others *)
SwapFrame ==
    /\ DOMAIN store = DOMAIN call.preStore
    /\ \A i \in DOMAIN store :
          /\ Payload(store[i]) = Payload(call.preStore[i])
          /\ i \notin {call.id1, call.id2} => store[i].position = call.preStore[i].position
    /\ Listed(posts) = Listed(call.prePosts) /\ Len(posts) = Len(call.prePosts)
    /\ \A i \in Listed(posts) :
          /\ Payload(Entry(posts, i)) = Payload(Entry(call.prePosts, i))
          /\ i \notin {call.id1, call.id2} =>
                Entry(posts, i).position = Entry(call.prePosts, i).position

SwapDone == Succeeded /\ call.kind = "swap" /\ call.id1 # call.id2

SwapTwice == SwapDone /\ prev.kind = "swap" /\ prev.result = "ok"

C8_SwapExchangesPayloads ==
    LET d == FindIndex(lastSwap.before, lastSwap.dragId)
        e == FindIndex(lastSwap.before, lastSwap.dropId)
    IN (d # 0 /\ e # 0) =>
          /\ Len(cells) = Len(lastSwap.before)
          /\ \A i \in 1..Len(cells) :
                /\ cells[i].id = lastSwap.before[i].id
                /\ PayloadOf(cells[i]) =
                      PayloadOf(lastSwap.before[IF i = d THEN e ELSE IF i = e THEN d ELSE i])

Retried == call.kind = "reorder" /\ prev.kind = "reorder"

(* C9: when a reorderPosts(list) was interrupted after a non-empty prefix of  *)
(* its 2N writes, the next reorderPosts with the same list has no write       *)
(* rejected by the uniqueness constraint and, when it completes, leaves every *)
(* listed post at list[i].position.                                           *)
C9_RepairConverges ==
    (Retried /\ prev.errKind = "network" /\ prev.errStep > 1) =>
        /\ call.errKind # "conflict"
        /\ Succeeded =>
              \A i \in 1..Len(call.list) :
                  store[call.list[i].id].position = call.list[i].position

(* C10: reorderPosts(list) called again with the same list right after it     *)
(* succeeded is not rejected by the table and ends with the same table and    *)
(* the same in-memory list as the first call.                                 *)
C10_ReorderIdempotent ==
    (Retried /\ prev.result = "ok") =>
        /\ call.errKind # "conflict"
        /\ Succeeded => store = call.preStore /\ posts = call.prePosts

C10_Witness ==
    /\ Retried /\ prev.result = "ok" /\ Succeeded
    /\ call.list # prev.prePosts
    /\ call.list[1].id # 1

(* a reorderPosts started by one of the two handlers of the drag-and-drop page *)
(* has resolved                                                               *)
HandlerReorderDone ==
    /\ call.kind = "reorder" /\ Succeeded
    /\ call.via \in {"handleSwapPosts", "handleCreateEmptyPost"}

(* C11 as stated: after a successful reorderPosts invoked by the drag-swap or *)
(* the insert-at-top handler on a feed with N posts, the post at list index i *)
(* (from 0) holds position i, in the table and in the list.                   *)
C11_ReorderDense ==
    HandlerReorderDone =>
        \A i \in 1..Len(posts) :
            /\ posts[i].position = i - 1
            /\ store[posts[i].id].position = i - 1

(* C11 amended: after a successful reorderPosts(list) invoked by the          *)
(* drag-swap or the insert-at-top handler on a feed with N posts, the list is *)
(* the one passed and the post at list index i (from 0) holds, in the table   *)
(* and in the list, the position the handler gave it: i for the drag-swap     *)
(* handler (0..N-1), i + 1 for the insert-at-top handler (1..N).              *)
C11_ReorderAssignsHandlerPositions ==
    HandlerReorderDone =>
        /\ posts = call.list
        /\ DOMAIN store = Listed(posts)
        /\ \A i \in 1..Len(posts) :
              LET p == IF call.via = "handleSwapPosts" THEN i - 1 ELSE i
              IN posts[i].position = p /\ store[posts[i].id].position = p

C11_Witness ==
    /\ Pending(call) /\ Len(posts) = 3
    /\ posts # call.prePosts

(* the id of the post the call created *)
Created == nextId - 1

InsertDone ==
    /\ call.kind = "create" /\ Succeeded /\ call.allOk
    /\ call.via \in {"handleCreatePostAtTop", "handleCreatePostAtBottom"}

(* C12: after a sequence of successful handleCreatePostAtTop and              *)
(* handleCreatePostAtBottom calls, the post the last call created holds a     *)
(* position below (top) or above (bottom) every position the posts of the     *)
(* feed held when the call started, all positions are distinct, and the new   *)
(* post sorts first (top) or last (bottom).                                   *)
C12_InsertAtEdge ==
    InsertDone =>
        /\ Created \in DOMAIN store /\ Created \notin DOMAIN call.preStore
        /\ Created \in Listed(posts) /\ Created \notin Listed(call.prePosts)
        /\ Entry(posts, Created).position = store[Created].position
        /\ IF call.via = "handleCreatePostAtTop"
           THEN /\ \A i \in DOMAIN call.preStore :
                      store[Created].position < call.preStore[i].position
                /\ \A i \in 1..Len(call.prePosts) :
                      store[Created].position < call.prePosts[i].position
                /\ posts[1].id = Created
           ELSE /\ \A i \in DOMAIN call.preStore :
                      store[Created].position > call.preStore[i].position
                /\ \A i \in 1..Len(call.prePosts) :
                      store[Created].position > call.prePosts[i].position
                /\ posts[Len(posts)].id = Created
        /\ DistinctPositions(store) /\ DistinctListPositions(posts)

(* three top inserts into the empty feed *)
C12_Witness ==
    /\ InsertDone /\ call.via = "handleCreatePostAtTop"
    /\ Len(posts) = 3
    /\ posts[1].id = 3 /\ posts[2].id = 2 /\ posts[3].id = 1
    /\ posts[3].position = -1

(* the table and the list when the handler of the call was entered *)
Continues == call.kind = "create" /\ call.via = "handleCreateEmptyPost" /\ prev.kind = "reorder"
HandlerPreStore == IF Continues THEN prev.preStore ELSE call.preStore
HandlerPrePosts == IF Continues THEN prev.prePosts ELSE call.prePosts

HandlerOver == call.pc = "done" /\ ~Pending(call)

(* the posts of both tables sort the same way by position *)
SameOrder(before, after) ==
    \A a \in DOMAIN before \cap DOMAIN after, b \in DOMAIN before \cap DOMAIN after :
        (before[a].position < before[b].position) <=> (after[a].position < after[b].position)

SameListOrder(before, after) ==
    \A a \in Listed(before) \cap Listed(after), b \in Listed(before) \cap Listed(after) :
        (Entry(before, a).position < Entry(before, b).position)
            <=> (Entry(after, a).position < Entry(after, b).position)

(* C13: when handleCreatePostAtTop, handleCreatePostAtBottom or               *)
(* handleCreateEmptyPost is over, with success or after a failure partway,    *)
(* the posts that existed before it sort by position as they did before it,   *)
(* in the table and in the list.                                              *)
C13_InsertKeepsOrder ==
    (HandlerOver /\ call.via \in {"handleCreatePostAtTop", "handleCreatePostAtBottom",
                                   "handleCreateEmptyPost"})
    => /\ SameOrder(HandlerPreStore, store)
       /\ SameListOrder(HandlerPrePosts, posts)

DeleteDone == call.kind = "delete" /\ Succeeded

(* C14: a successful deletePost(id) removes the post with that id and no      *)
(* other from the table and from the list, and every other post keeps its     *)
(* position and payload in both (positions are not renumbered).               *)
C14_RemoveLeavesHoles ==
    DeleteDone =>
        /\ DOMAIN store = DOMAIN call.preStore \ {call.id1}
        /\ \A i \in DOMAIN store : store[i] = call.preStore[i]
        /\ posts = SelectSeq(call.prePosts, LAMBDA p : p.id # call.id1)

C14_Witness ==
    /\ DeleteDone /\ call.id1 \in DOMAIN call.preStore
    /\ Len(posts) = 2
    /\ posts[2].position - posts[1].position > 1
    /\ store[posts[2].id].position - store[posts[1].id].position > 1

(* the call named a post that the in-memory list did not hold *)
NotFound ==
    \/ /\ call.kind \in {"update", "delete"}
       /\ call.id1 \notin Listed(call.prePosts)
    \/ /\ call.kind = "swap" \/ call.via = "handleSwapPosts"
       /\ {call.id1, call.id2} \ Listed(call.prePosts) # {}

(* C15: swapPosts, deletePost, updatePost and the drag-swap handler, called   *)
(* with an id that is not in the in-memory list, end rejected (the handler    *)
(* with an error toast); none of them completes as if nothing was wrong.      *)
C15_NotFoundIsAnError ==
    (NotFound /\ HandlerOver) =>
        /\ call.result = "rejected"
        /\ call.via # "hook" => Toast(call) = "error"

(* a swapPosts(A, A) on a listed post is over, none of its requests dropped *)
SelfSwapOver ==
    /\ call.kind = "swap" /\ call.id1 = call.id2
    /\ call.id1 \in Listed(call.prePosts)
    /\ call.pc = "done" /\ call.errKind # "network"

(* C16: swapPosts(A, A) for a listed post A completes without error and       *)
(* leaves every post at the position it had before the call, in the table     *)
(* and in the list.                                                           *)
C16_SelfSwapNoOp ==
    SelfSwapOver =>
        /\ call.result = "ok"
        /\ DOMAIN store = DOMAIN call.preStore
        /\ \A i \in DOMAIN store : store[i].position = call.preStore[i].position
        /\ posts = call.prePosts

(* C17: whenever a swapPosts call has issued its first write, also after      *)
(* earlier swapPosts calls that failed or were interrupted, no post of the    *)
(* feed holds position 999999 in the table.                                   *)
C17_SentinelFree ==
    (call.kind = "swap" /\ call.issued = 1 /\ call.inflight = {1}) =>
        \A i \in DOMAIN store : store[i].position # TempPosition

(* the in-memory list shows what the call asked for *)
Reflected ==
    CASE call.kind = "create" -> Len(posts) = Len(call.prePosts) + 1
      [] call.kind = "delete" -> call.id1 \notin Listed(posts)
      [] call.kind = "update" ->
            call.id1 \in Listed(posts) =>
               /\ call.args.hasCap => Entry(posts, call.id1).caption = call.args.caption
               /\ call.args.hasPos => Entry(posts, call.id1).position = call.args.position
      [] OTHER ->
            /\ Entry(posts, call.id1).position = call.pos2
            /\ Entry(posts, call.id2).position = call.pos1

(* C18: while the first store write of a createPost, deletePost, swapPosts or *)
(* updatePost is issued and not yet confirmed, the in-memory list already     *)
(* shows the mutation.                                                        *)
C18_LocalUpdateFirst ==
    (call.kind \in {"create", "delete", "swap", "update"}
        /\ call.issued >= 1 /\ call.completed = <<>>)
    => Reflected

(* the quiet period after the last edit of the burst has passed and the     *)
(* timeout due at its end, if any, has fired                                 *)
BurstOver == burst.last # -1 /\ clock - burst.last >= Delay /\ ~TimerDue

Surfaced(r) ==
    \/ saves[r].notice = "alert: failed"
    \/ Badge(autoSaveStatus) \notin {"hidden", "Automatikus mentes...", "Mentve"}

(* C20: whenever the save cycle started by the auto-save timer has failed,    *)
(* the user is shown the failure (an alert or an error badge), not only the   *)
(* console.                                                                   *)
C20_AutoSaveFailureSurfaced ==
    \A r \in DOMAIN saves :
        (saves[r].by = "auto" /\ saves[r].result = "failed") => Surfaced(r)

(* a load got an answer with at least one persisted post *)
LoadedSome == load.pc = "done" /\ load.data # <<>>

(* the ids of the persisted posts of the answer *)
PersistedIds == {load.data[k].id : k \in 1..Len(load.data)}

(* C21: for every non-empty answer of the server (any ids >= 1, with holes), *)
(* the list built by loadPosts and by handleViewSharedFeed has at least 9     *)
(* entries and pairwise distinct ids.                                         *)
C21_SnapshotDensity ==
    LoadedSome =>
        /\ Len(cells) >= 9
        /\ \A i, j \in 1..Len(cells) : i # j => cells[i].id # cells[j].id

C21_Witness ==
    /\ LoadedSome
    /\ load.by = "handleViewSharedFeed"
    /\ PersistedIds = {2, MaxRowId}
    /\ Len(cells) = MaxRowId

(* the answer has no two posts with the same id *)
DistinctPersisted == Cardinality(PersistedIds) = Len(load.data)

(* C22: when the persisted posts have distinct ids, the list built by         *)
(* loadPosts has length L = max(greatest persisted id, 9); its i-th entry is  *)
(* the persisted post with id i, with that post's image, imagePath, caption,  *)
(* scheduledTime and notes, when there is one, and otherwise a placeholder    *)
(* with id i and nothing else; every persisted post is at exactly one index.  *)
C22_SnapshotPlacement ==
    (LoadedSome /\ load.by = "loadPosts" /\ DistinctPersisted) =>
        /\ \A id \in PersistedIds : Len(cells) >= id
        /\ Len(cells) >= 9
        /\ Len(cells) = 9 \/ Len(cells) \in PersistedIds
        /\ \A i \in 1..Len(cells) :
              /\ cells[i].id = i
              /\ \A k \in 1..Len(load.data) :
                    load.data[k].id = i =>
                        /\ cells[i].image = load.data[k].image
                        /\ cells[i].imagePath = load.data[k].imagePath
                        /\ cells[i].caption = load.data[k].caption
                        /\ cells[i].scheduledTime = load.data[k].scheduledTime
                        /\ cells[i].notes = load.data[k].notes
              /\ i \notin PersistedIds => cells[i] = EmptyCell(i)
        /\ \A k \in 1..Len(load.data) :
              Cardinality({i \in 1..Len(cells) :
                              /\ cells[i].id = load.data[k].id
                              /\ PayloadOf(cells[i]) = PayloadOf(load.data[k])}) = 1

(* two persisted posts with holes around them: 2 real entries, 7 placeholders *)
C22_Witness ==
    /\ LoadedSome
    /\ load.by = "loadPosts"
    /\ PersistedIds = {3, 6}
    /\ Len(cells) = MinGrid
    /\ Cardinality({i \in 1..Len(cells) : cells[i] = EmptyCell(i)}) = MinGrid - 2

(* C23: whenever the answer handed to loadPosts or handleViewSharedFeed holds *)
(* two posts with the same id, the loader logs that it found duplicate ids.   *)
C23_DuplicatesDetected ==
    (LoadedSome /\ ~DistinctPersisted) => "DUPLICATE IDS DETECTED" \in load.errors

(* C24: under any interleaving of the result of fetchComments with INSERT,    *)
(* UPDATE and DELETE events, delivered in any order and possibly twice, also  *)
(* an INSERT event for a row the fetch returned, the list of useComments      *)
(* never holds two entries with the same comment id.                          *)
C24_IdempotentMerge ==
    \A i, j \in 1..Len(comments) : i # j => comments[i].id # comments[j].id

(* the step is the answer to the fetchPosts of the feed the hook is rendered with *)
FreshAnswer ==
    \E r \in fetchPosts :
        /\ r.feed = feedId /\ r.pc = "answer"
        /\ fetchPosts' = fetchPosts \ {r}

(* C25: once the feedId of usePosts has changed, the completion of a fetch or *)
(* of a mutation started for the feed before never modifies the in-memory    *)
(* list: only the fetch for the new feed does.                               *)
C25_StaleCompletionsDropped ==
    [][(feedId = "B" /\ posts' # posts) => FreshAnswer]_vars

(* the page shows a feed that another user owns and shares with the user *)
Grantee == editor.loadFeedName # "idle" /\ editor.owner_id # "user"

(* C26: a user who only holds a share grant of a feed never has a createPost, *)
(* deletePost, swapPosts or updatePost of that feed started from the editor   *)
(* page, and no payload field of the owner's posts on the server changes by   *)
(* the user's requests.                                                       *)
C26_GranteeCannotMutate ==
    /\ Grantee => call.kind = "none" /\ overlap.kind = "none"
    /\ sharedKv = OwnerPosts

(* C27: whatever the user clicks in swap mode (select, deselect, toggle the   *)
(* mode), a swapPosts call is never started while an earlier swapPosts call   *)
(* of the same feed is still in flight.                                       *)
C27_NoOverlappingSwaps ==
    ~(/\ call.kind = "swap" /\ InFlight(call)
      /\ overlap.kind = "swap" /\ InFlight(overlap))

(* C28: a call of swapPosts, reorderPosts, createPost, updatePost or          *)
(* deletePost one of whose writes has failed, or whose writes have not all    *)
(* succeeded yet, leaves the posts of the hook exactly as they were when the  *)
(* call began.                                                                *)
C28_CacheUnchangedOnFailure ==
    (call.kind # "none" /\ (call.errStep # 0 \/ call.result # "ok")) =>
        posts = call.prePosts

C28_Witness ==
    /\ call.kind = "swap" /\ call.result = "rejected"
    /\ call.errStep = 3 /\ call.errKind = "network"
    /\ store # call.preStore
    /\ posts = call.prePosts

(* C29: a successful updatePost(id, updates) changes, in the row and in the   *)
(* list entry of post id, only the fields that updates holds: position,       *)
(* caption and scheduled_time each keep their value when absent (in           *)
(* particular scheduled_time when only a caption or a position is given),     *)
(* and no other post changes.                                                 *)
C29_UpdateOnlyGiven ==
    (Succeeded /\ call.kind = "update") =>
        /\ DOMAIN store = DOMAIN call.preStore
        /\ \A i \in DOMAIN store : i # call.id1 => store[i] = call.preStore[i]
        /\ ~call.args.hasPos => store[call.id1].position = call.preStore[call.id1].position
        /\ ~call.args.hasCap => store[call.id1].caption = call.preStore[call.id1].caption
        /\ ~call.args.hasSched =>
              store[call.id1].scheduled_time = call.preStore[call.id1].scheduled_time
        /\ Listed(posts) = Listed(call.prePosts)
        /\ \A i \in Listed(posts) :
              Entry(posts, i) = IF i = call.id1 THEN PostOf(store, i)
                                ELSE Entry(call.prePosts, i)

(* the cell at index k of a grid, an empty one beyond its end *)
CellAt(s, k) == IF k <= Len(s) THEN s[k] ELSE EmptyCell(k)

(* index by index: an image in the loaded grid exactly where the saved one   *)
(* had one, with the caption, scheduledTime and notes it had (a missing or   *)
(* empty value is the same as null)                                          *)
RoundTrip(saved, loaded) ==
    \A k \in 1..Max({Len(saved), Len(loaded)}) :
        /\ Falsy(CellAt(loaded, k).image) <=> Falsy(CellAt(saved, k).image)
        /\ ~Falsy(CellAt(saved, k).image) =>
              /\ OrNull(CellAt(loaded, k).caption) = OrNull(CellAt(saved, k).caption)
              /\ OrNull(CellAt(loaded, k).scheduledTime) = OrNull(CellAt(saved, k).scheduledTime)
              /\ OrNull(CellAt(loaded, k).notes) = OrNull(CellAt(saved, k).notes)

(* C30: when performSave has completed successfully on the grid and loadPosts *)
(* is then answered, the loaded grid has, at every index, an image exactly    *)
(* where the saved grid had one, with the same caption, scheduledTime and     *)
(* notes, whatever ids the cells had (handleAddCell included).                *)
C30_SaveLoadRoundTrip ==
    [][(/\ saves # <<>> /\ saves[1].result = "ok"
        /\ load.pc = "fetch" /\ load'.pc = "done" /\ load'.errors = {})
       => RoundTrip(cells, cells')]_vars

====
